---- MODULE Spec2Model ----
(***************************************************************************)
(* State-machine model of the comment safety subsystem of jdgrowthscraper: *)
(* SafetyManager (src/src/safety.py) and the way JDGrowthScraper           *)
(* (src/main.py) drives it.                                                *)
(*                                                                         *)
(* Time is the integer number of seconds returned by time.time(); a date   *)
(* is the integer number of the calendar day returned by                   *)
(* datetime.now().date().  str(date) is injective and the code only        *)
(* compares the strings with !=, so a date string is kept as its day       *)
(* number.  Python's None is the value None below.                         *)
(***************************************************************************)
EXTENDS Integers, Sequences, FiniteSets, TLC

VARIABLES
    comments_today,     \* SafetyManager.comments_today
    last_reset_date,    \* SafetyManager.last_reset_date
    commented_posts,    \* SafetyManager.commented_posts (a set)
    error_count,        \* SafetyManager.error_count
    hourly_comments,    \* SafetyManager.hourly_comments (a list of times)
    last_comment_time,  \* SafetyManager.last_comment_time (None or a time)
    data_file,          \* content of logs/safety_data.json
    now,                \* time.time()
    today,              \* datetime.now().date()
    ret,                \* the SafetyManager call just made and what it returned
    boot,               \* log: the counters this process was constructed with
    history,            \* log: the times of the successful record_comment calls of this process
    recorded,           \* log: the post ids of those calls
    approved,           \* log: post id allowed by the latest can_comment, no record since
    done,               \* log: the post ids recorded as commented by any process so far
    io_failed,          \* log: a save or a load of the record has failed so far
    pc,                 \* JDGrowthScraper: where the session stands
    posts,              \* the posts get_recent_posts returned (their ids)
    safe_posts,         \* _run_scraping_session: safe_posts
    idx,                \* index of the loop over posts / safe_posts
    success,            \* what _attempt_comment_with_retry returned
    runs,               \* number of processes started so far
    attempt,            \* _attempt_comment_with_retry: attempt (0 outside the loop)
    error,              \* str(e) of the exception last caught for the current post
    results,            \* _comment_on_posts_safely: the results dictionary
    calls,              \* log: calls of the poster made for the current post
    config,             \* Config: the settings run() found in the environment
    result,             \* what run() returned, and whether the counts were reported
    submitted           \* log: the posts the poster has commented on in this process

smVars  == <<comments_today, last_reset_date, commented_posts, error_count,
             hourly_comments, last_comment_time>>
envVars == <<now, today>>
logVars == <<boot, history, recorded, approved, done, io_failed>>
retryVars == <<attempt, error, results, calls>>
runVars == <<config, result, submitted>>
sessVars == <<pc, posts, safe_posts, idx, success, runs, retryVars, runVars>>
vars    == <<comments_today, last_reset_date, commented_posts, error_count,
             hourly_comments, last_comment_time, data_file, now, today, ret,
             boot, history, recorded, approved, done, io_failed,
             pc, posts, safe_posts, idx, success, runs,
             attempt, error, results, calls, config, result, submitted>>

----------------------------------------------------------------------------
(* Program constants, SafetyManager.__init__ *)
MAX_COMMENTS_PER_DAY == 50
MAX_COMMENTS_PER_HOUR == 10
MAX_CONSECUTIVE_ERRORS == 5
MIN_DELAY_BETWEEN_COMMENTS == 30
HOUR == 3600

None == -1

(* Bounds of the model *)
MaxCalls == 4       \* successful record_comment calls per process, general use
MaxBurst == 11      \* the same where the hourly limit is to be reached
MaxErrors == 6      \* error_count is not driven beyond this value
MaxDay == 2         \* the calendar runs over the days 1..MaxDay

Day1 == 1

Ids == {"p1", "p2"}

----------------------------------------------------------------------------
(* Sequence helpers *)
Range(s) == {s[i] : i \in DOMAIN s}

RECURSIVE SetToList(_)
(* list(a_set): some enumeration of the set, each element once *)
SetToList(S) ==
    IF S = {} THEN <<>>
    ELSE LET x == CHOOSE y \in S : TRUE IN <<x>> \o SetToList(S \ {x})

----------------------------------------------------------------------------
(* The persisted record, logs/safety_data.json.  kind says what the file is: *)
(* absent, not parsable ("corrupt"), a JSON object ("record"), a JSON object *)
(* whose commented_posts is null ("null_posts"), or a JSON array ("array");  *)
(* has is the set of the keys the object holds, the other fields are at 0.   *)
Keys == {"comments_today", "last_reset_date", "commented_posts"}

NoFile == [kind |-> "absent", has |-> {}, comments_today |-> 0,
           last_reset_date |-> 0, commented_posts |-> <<>>]
Corrupt == [kind |-> "corrupt", has |-> {}, comments_today |-> 0,
            last_reset_date |-> 0, commented_posts |-> <<>>]

(* data_to_save of _save_safety_data *)
data_to_save(ct, lrd, cp) ==
    [kind |-> "record", has |-> Keys, comments_today |-> ct,
     last_reset_date |-> lrd, commented_posts |-> SetToList(cp)]

(* _save_safety_data: open(file, 'w') then json.dump, every exception caught. *)
(* outcome "ok": the record replaces the file; "open_fails": the file is left *)
(* as it was; "write_fails": open() truncated the file and the dump failed.   *)
SaveOutcomes == {"ok", "open_fails", "write_fails"}

(* mutant: nothing is written *)
save_safety_data_never(outcome, ct, lrd, cp) == data_file' = data_file

save_safety_data(outcome, ct, lrd, cp) ==
    data_file' = CASE outcome = "ok" -> data_to_save(ct, lrd, cp)
                   [] outcome = "open_fails" -> data_file
                   [] OTHER -> Corrupt

(* _load_safety_data: what json.load returns, or {} when there is no file or *)
(* the read or the parse fails.                                               *)
load_safety_data(file, readable) ==
    IF file.kind \in {"record", "null_posts", "array"} /\ readable THEN file ELSE NoFile

(* SafetyManager.__init__, lines 21-23: data.get on what is not a dictionary *)
(* raises AttributeError, set() of what is not iterable raises TypeError     *)
SafetyManagerRaises(file, readable) ==
    LET data == load_safety_data(file, readable) IN
    \/ data.kind = "array"
    \/ data.kind = "null_posts" /\ "commented_posts" \in data.has

----------------------------------------------------------------------------
(* mutant: the constructor does not take commented_posts from the record *)
SafetyManagerNewForgetsPosts(file, readable, day) ==
    LET data == load_safety_data(file, readable) IN
    [comments_today    |-> IF "comments_today" \in data.has
                             THEN data.comments_today ELSE 0,
     last_reset_date   |-> IF "last_reset_date" \in data.has
                             THEN data.last_reset_date ELSE day,
     commented_posts   |-> {},
     error_count       |-> 0,
     hourly_comments   |-> <<>>,
     last_comment_time |-> None]

(* mutant: the constructor starts the day's count at 0 whatever the record   *)
(* holds                                                                      *)
SafetyManagerNewZeroCount(file, readable, day) ==
    LET data == load_safety_data(file, readable) IN
    [comments_today    |-> 0,
     last_reset_date   |-> IF "last_reset_date" \in data.has
                             THEN data.last_reset_date ELSE day,
     commented_posts   |-> IF "commented_posts" \in data.has
                             THEN Range(data.commented_posts) ELSE {},
     error_count       |-> 0,
     hourly_comments   |-> <<>>,
     last_comment_time |-> None]

(* SafetyManager.__init__: the fields of a manager constructed on date `day` *)
(* from the file; data.get(key, default) for each persisted field.           *)
SafetyManagerNew(file, readable, day) ==
    LET data == load_safety_data(file, readable) IN
    [comments_today    |-> IF "comments_today" \in data.has
                             THEN data.comments_today ELSE 0,
     last_reset_date   |-> IF "last_reset_date" \in data.has
                             THEN data.last_reset_date ELSE day,
     commented_posts   |-> IF "commented_posts" \in data.has
                             THEN Range(data.commented_posts) ELSE {},
     error_count       |-> 0,
     hourly_comments   |-> <<>>,
     last_comment_time |-> None]

----------------------------------------------------------------------------
(* reset_daily_counters_if_needed *)
ResetDue == last_reset_date # today

(* mutant: the daily reset leaves comments_today as it is *)
CommentsNeverReset == comments_today

CommentsAfterReset == IF ResetDue THEN 0 ELSE comments_today

(* mutant: the daily reset leaves error_count as it is *)
ErrorsNeverReset == error_count

ErrorsAfterReset == IF ResetDue THEN 0 ELSE error_count

(* mutant: the comparison of _cleanup_hourly_comments is reversed *)
CleanupKeepsOld(t, clock) == t < clock - HOUR

(* _cleanup_hourly_comments: [t for t in hourly_comments if t > time.time() - 3600] *)
CleanupKeeps(t, clock) == t > clock - HOUR

cleanup_hourly_comments(h, clock) == SelectSeq(h, LAMBDA t : CleanupKeeps(t, clock))

(* `if self.last_comment_time:` -- None and 0 are both false *)
Truthy(x) == x # None /\ x # 0

(* mutant: the elapsed time is compared the wrong way round *)
TooSoonReversed(clock) ==
    /\ Truthy(last_comment_time)
    /\ clock - last_comment_time > MIN_DELAY_BETWEEN_COMMENTS

TooSoon(clock) ==
    /\ Truthy(last_comment_time)
    /\ clock - last_comment_time < MIN_DELAY_BETWEEN_COMMENTS

(* mutant: the daily limit is checked before the dedup set *)
can_comment_reason_daily_first(post_id, ct, h, ec) ==
    IF ct >= MAX_COMMENTS_PER_DAY THEN "daily_limit"
    ELSE IF post_id \in commented_posts THEN "already_commented"
    ELSE IF Len(h) >= MAX_COMMENTS_PER_HOUR THEN "hourly_limit"
    ELSE IF TooSoon(now) THEN "too_soon"
    ELSE IF ec >= MAX_CONSECUTIVE_ERRORS THEN "too_many_errors"
    ELSE "safe"

(* mutant: the hourly check lets one comment too many through *)
can_comment_reason_hourly_off_by_one(post_id, ct, h, ec) ==
    IF post_id \in commented_posts THEN "already_commented"
    ELSE IF ct >= MAX_COMMENTS_PER_DAY THEN "daily_limit"
    ELSE IF Len(h) > MAX_COMMENTS_PER_HOUR THEN "hourly_limit"
    ELSE IF TooSoon(now) THEN "too_soon"
    ELSE IF ec >= MAX_CONSECUTIVE_ERRORS THEN "too_many_errors"
    ELSE "safe"

(* mutant: the error count is checked before the time since the last comment *)
can_comment_reason_errors_first(post_id, ct, h, ec) ==
    IF post_id \in commented_posts THEN "already_commented"
    ELSE IF ct >= MAX_COMMENTS_PER_DAY THEN "daily_limit"
    ELSE IF Len(h) >= MAX_COMMENTS_PER_HOUR THEN "hourly_limit"
    ELSE IF ec >= MAX_CONSECUTIVE_ERRORS THEN "too_many_errors"
    ELSE IF TooSoon(now) THEN "too_soon"
    ELSE "safe"

(* can_comment, lines 77-101: the reason of the first check that fails.  ct  *)
(* and ec are the counters after the daily reset, h the hourly list as the   *)
(* hourly check sees it (after cleanup).                                     *)
can_comment_reason(post_id, ct, h, ec) ==
    IF post_id \in commented_posts THEN "already_commented"
    ELSE IF ct >= MAX_COMMENTS_PER_DAY THEN "daily_limit"
    ELSE IF Len(h) >= MAX_COMMENTS_PER_HOUR THEN "hourly_limit"
    ELSE IF TooSoon(now) THEN "too_soon"
    ELSE IF ec >= MAX_CONSECUTIVE_ERRORS THEN "too_many_errors"
    ELSE "safe"

(* can_comment returns before _cleanup_hourly_comments on the first two checks *)
ReachesHourlyCheck(post_id, ct) ==
    /\ post_id \notin commented_posts
    /\ ct < MAX_COMMENTS_PER_DAY

(* SafetyManager.can_comment(post_id); outcome is that of the save the daily *)
(* reset makes.                                                               *)
can_comment(post_id, outcome) ==
    LET ct == CommentsAfterReset
        ec == ErrorsAfterReset
        h  == IF ReachesHourlyCheck(post_id, ct)
                THEN cleanup_hourly_comments(hourly_comments, now)
                ELSE hourly_comments
        reason == can_comment_reason(post_id, ct, h, ec)
    IN  /\ comments_today' = ct
        /\ error_count' = ec
        /\ last_reset_date' = today
        /\ IF ResetDue
             THEN save_safety_data(outcome, ct, today, commented_posts)
             ELSE /\ outcome = "ok"
                  /\ data_file' = data_file
        /\ hourly_comments' = h
        /\ UNCHANGED <<commented_posts, last_comment_time>>
        /\ ret' = [op |-> "can_comment", post_id |-> post_id,
                   ok |-> (reason = "safe"), reason |-> reason, reset |-> ResetDue,
                   wait |-> IF reason = "too_soon"
                              THEN MIN_DELAY_BETWEEN_COMMENTS - (now - last_comment_time)
                              ELSE 0]

(* mutant: a repeated post id is not counted again *)
RecordSuccessOncePerId(post_id, current_time) ==
    /\ comments_today' = (IF post_id \in commented_posts
                            THEN comments_today ELSE comments_today + 1)
    /\ commented_posts' = commented_posts \cup {post_id}
    /\ hourly_comments' = Append(hourly_comments, current_time)
    /\ last_comment_time' = current_time
    /\ error_count' = 0

(* mutant: a success leaves the error count as it is *)
RecordSuccessKeepsErrors(post_id, current_time) ==
    /\ comments_today' = comments_today + 1
    /\ commented_posts' = commented_posts \cup {post_id}
    /\ hourly_comments' = Append(hourly_comments, current_time)
    /\ last_comment_time' = current_time
    /\ UNCHANGED error_count

(* record_comment, the branch `if success:` *)
RecordSuccess(post_id, current_time) ==
    /\ comments_today' = comments_today + 1
    /\ commented_posts' = commented_posts \cup {post_id}
    /\ hourly_comments' = Append(hourly_comments, current_time)
    /\ last_comment_time' = current_time
    /\ error_count' = 0

(* mutant: a failed attempt also stamps the time of the last comment *)
RecordFailureStampsTime ==
    /\ error_count' = error_count + 1
    /\ last_comment_time' = now
    /\ UNCHANGED <<comments_today, commented_posts, hourly_comments>>

(* record_comment, the branch `else:` *)
RecordFailure ==
    /\ error_count' = error_count + 1
    /\ UNCHANGED <<comments_today, commented_posts, hourly_comments,
                   last_comment_time>>

(* mutant: a comment whose save fails is not counted in memory either *)
record_comment_only_if_saved(post_id, ok, outcome) ==
    /\ IF outcome # "ok" THEN UNCHANGED <<comments_today, commented_posts,
                                           hourly_comments, last_comment_time,
                                           error_count>>
        ELSE IF ok THEN RecordSuccess(post_id, now) ELSE RecordFailure
    /\ UNCHANGED last_reset_date
    /\ save_safety_data(outcome, comments_today', last_reset_date, commented_posts')
    /\ ret' = [op |-> "record_comment", post_id |-> post_id, ok |-> ok,
               reason |-> "", reset |-> FALSE, wait |-> 0]

(* SafetyManager.record_comment(post_id, success) *)
record_comment(post_id, ok, outcome) ==
    /\ IF ok THEN RecordSuccess(post_id, now) ELSE RecordFailure
    /\ UNCHANGED last_reset_date
    /\ save_safety_data(outcome, comments_today', last_reset_date, commented_posts')
    /\ ret' = [op |-> "record_comment", post_id |-> post_id, ok |-> ok,
               reason |-> "", reset |-> FALSE, wait |-> 0]

(* SafetyManager.reset_daily_counters_if_needed, called on its own; outcome  *)
(* is that of the save it makes when the date has changed.                   *)
reset_daily_counters_if_needed(outcome) ==
    /\ comments_today' = CommentsAfterReset
    /\ error_count' = ErrorsAfterReset
    /\ last_reset_date' = today
    /\ IF ResetDue
         THEN save_safety_data(outcome, CommentsAfterReset, today, commented_posts)
         ELSE /\ outcome = "ok"
              /\ data_file' = data_file
    /\ UNCHANGED <<commented_posts, hourly_comments, last_comment_time>>
    /\ ret' = [op |-> "reset_daily_counters_if_needed", post_id |-> "", ok |-> TRUE,
               reason |-> "", reset |-> ResetDue, wait |-> 0]

(* mutant: the daily break comes at the limit, not at 0.8 of it *)
should_take_break_reason_at_limit(ct, h, ec) ==
    IF ct >= MAX_COMMENTS_PER_DAY THEN "approaching_daily_limit"
    ELSE IF 10 * Len(h) >= 8 * MAX_COMMENTS_PER_HOUR THEN "high_activity"
    ELSE IF ec >= 3 THEN "consecutive_errors"
    ELSE "no_break"

(* mutant: should_take_break never asks for a break *)
should_take_break_reason_never(ct, h, ec) == "no_break"

(* should_take_break with the error test moved to the front *)
should_take_break_reason_errors_first(ct, h, ec) ==
    IF ec >= 3 THEN "consecutive_errors"
    ELSE IF 10 * ct >= 8 * MAX_COMMENTS_PER_DAY THEN "approaching_daily_limit"
    ELSE IF 10 * Len(h) >= 8 * MAX_COMMENTS_PER_HOUR THEN "high_activity"
    ELSE "no_break"

(* SafetyManager.should_take_break, on the counters given: the reason of the *)
(* first condition that holds.  0.8 * limit is compared in tenths.           *)
should_take_break_reason(ct, h, ec) ==
    IF 10 * ct >= 8 * MAX_COMMENTS_PER_DAY THEN "approaching_daily_limit"
    ELSE IF 10 * Len(h) >= 8 * MAX_COMMENTS_PER_HOUR THEN "high_activity"
    ELSE IF ec >= 3 THEN "consecutive_errors"
    ELSE "no_break"

(* SafetyManager.get_status_report: the daily reset and the cleanup, then a  *)
(* snapshot; outcome is that of the save the daily reset makes.              *)
get_status_report(outcome) ==
    /\ comments_today' = CommentsAfterReset
    /\ error_count' = ErrorsAfterReset
    /\ last_reset_date' = today
    /\ IF ResetDue
         THEN save_safety_data(outcome, CommentsAfterReset, today, commented_posts)
         ELSE /\ outcome = "ok"
              /\ data_file' = data_file
    /\ hourly_comments' = cleanup_hourly_comments(hourly_comments, now)
    /\ UNCHANGED <<commented_posts, last_comment_time>>
    /\ ret' = [op |-> "get_status_report", post_id |-> "", ok |-> TRUE,
               reason |-> "", reset |-> ResetDue, wait |-> 0]

(* SafetyManager.should_take_break as a call: it reads comments_today,       *)
(* hourly_comments and error_count as they are and changes nothing.          *)
should_take_break ==
    LET reason == should_take_break_reason(comments_today, hourly_comments, error_count)
    IN  /\ ret' = [op |-> "should_take_break", post_id |-> "",
                   ok |-> (reason # "no_break"), reason |-> reason,
                   reset |-> FALSE, wait |-> 0]
        /\ UNCHANGED <<smVars, data_file>>

(* Config.delay_between_comments, its default *)
DELAY_BETWEEN_COMMENTS == 30

(* get_recommended_delay, lines 131-137: the multiplier in tenths, the tests *)
(* in the order the code makes them.                                          *)
DelayMultiplier(recent_comments) ==
    IF recent_comments > 5 THEN 15
    ELSE IF recent_comments > 8 THEN 20
    ELSE 10

(* random.uniform(0.8, 1.2) in tenths: the two ends and the middle *)
Variations == {8, 10, 12}

(* SafetyManager.get_recommended_delay: the delay returned, in hundredths of *)
(* a second, is kept in ret.wait.  It reads hourly_comments as it is.        *)
get_recommended_delay(variation) ==
    /\ ret' = [op |-> "get_recommended_delay", post_id |-> "", ok |-> TRUE,
               reason |-> "", reset |-> FALSE,
               wait |-> DELAY_BETWEEN_COMMENTS * DelayMultiplier(Len(hourly_comments))
                            * variation]
    /\ UNCHANGED <<smVars, data_file>>

----------------------------------------------------------------------------
(* The environment: the clock and the calendar.  The clock moves forward to  *)
(* a later instant of the set a specification gives; the date moves forward  *)
(* by one day while the clock moves.                                          *)
NoId == ""

NoCall == [op |-> "none", post_id |-> NoId, ok |-> FALSE, reason |-> "",
           reset |-> FALSE, wait |-> 0]

Tick(instants) ==
    /\ \E t \in instants : t > now /\ now' = t
    /\ ret' = NoCall
    /\ UNCHANGED <<smVars, data_file, today, logVars, sessVars>>

Midnight(instants) ==
    /\ today < MaxDay
    /\ today' = today + 1
    /\ \E t \in instants : t > now /\ now' = t
    /\ ret' = NoCall
    /\ UNCHANGED <<smVars, data_file, logVars, sessVars>>

(* The log kept along a call of can_comment or get_status_report. *)
LogQuery(outcome) ==
    /\ approved' = (IF ret'.op = "can_comment" /\ ret'.ok THEN ret'.post_id ELSE NoId)
    /\ io_failed' = (io_failed \/ outcome # "ok")
    /\ UNCHANGED <<boot, history, recorded, done>>

(* The log kept along a call of record_comment. *)
LogRecord(post_id, ok, outcome) ==
    /\ history' = (IF ok THEN Append(history, now) ELSE history)
    /\ recorded' = (IF ok THEN recorded \cup {post_id} ELSE recorded)
    /\ done' = (IF ok THEN done \cup {post_id} ELSE done)
    /\ approved' = NoId
    /\ io_failed' = (io_failed \/ outcome # "ok")
    /\ UNCHANGED boot

(* A caller of the SafetyManager API makes one call. *)
CanCommentCall(ids, outcomes) ==
    \E post_id \in ids, outcome \in outcomes :
        /\ can_comment(post_id, outcome)
        /\ LogQuery(outcome)
        /\ UNCHANGED <<envVars, sessVars>>

RecordCommentCall(ids, oks, outcomes, budget) ==
    \E post_id \in ids, ok \in oks, outcome \in outcomes :
        /\ ok => Len(history) < budget
        /\ ~ok => error_count < MaxErrors
        /\ record_comment(post_id, ok, outcome)
        /\ LogRecord(post_id, ok, outcome)
        /\ UNCHANGED <<envVars, sessVars>>

(* No exception is being handled; the exception whose str() is `text`. *)
NoError == [raised |-> FALSE, text |-> <<>>]

Raised(text) == [raised |-> TRUE, text |-> text]

(* _comment_on_posts_safely, lines 126-132: the results dictionary *)
NewResults(total) ==
    [total_posts |-> total, successful_comments |-> 0, failed_comments |-> 0,
     skipped_posts |-> 0, safety_stops |-> 0]

(* The environment has not been read yet. *)
NoConfig == [facebook_email |-> "", facebook_password |-> "", group_id |-> "",
             read |-> FALSE]

(* run() has not returned; run() has returned `ok`, the session counts       *)
(* reported by _log_session_results or not.                                   *)
Running == [value |-> "running", reported |-> FALSE, interrupted |-> FALSE]

Returned(ok, reported) ==
    [value |-> (IF ok THEN "success" ELSE "failure"), reported |-> reported,
     interrupted |-> FALSE]

(* run(), lines 55-57: KeyboardInterrupt was caught, run() has returned True *)
Interrupted == [value |-> "success", reported |-> FALSE, interrupted |-> TRUE]

(* The state after SafetyManager(config) was constructed at `clock` on `day` *)
(* with `file` on the disk, by the first process.                            *)
Constructed(file, readable, clock, day) ==
    LET sm == SafetyManagerNew(file, readable, day) IN
    /\ pc = "start"
    /\ posts = <<>>
    /\ safe_posts = <<>>
    /\ idx = 0
    /\ success = FALSE
    /\ runs = 1
    /\ attempt = 0
    /\ error = NoError
    /\ results = NewResults(0)
    /\ calls = 0
    /\ config = NoConfig
    /\ result = Running
    /\ submitted = {}
    /\ done = (IF file.kind = "record" THEN Range(file.commented_posts) ELSE {})
    /\ io_failed = FALSE
    /\ comments_today = sm.comments_today
    /\ last_reset_date = sm.last_reset_date
    /\ commented_posts = sm.commented_posts
    /\ error_count = sm.error_count
    /\ hourly_comments = sm.hourly_comments
    /\ last_comment_time = sm.last_comment_time
    /\ data_file = file
    /\ now = clock
    /\ today = day
    /\ ret = NoCall
    /\ boot = [comments_today |-> sm.comments_today,
               last_reset_date |-> sm.last_reset_date,
               commented_posts |-> sm.commented_posts, day |-> day]
    /\ history = <<>>
    /\ recorded = {}
    /\ approved = NoId

----------------------------------------------------------------------------
(* ErrorHandler.  A text is the sequence of its characters. *)
UpperCase == <<"A", "B", "C", "D", "E", "F", "G", "H", "I", "J", "K", "L", "M",
               "N", "O", "P", "Q", "R", "S", "T", "U", "V", "W", "X", "Y", "Z">>
LowerCase == <<"a", "b", "c", "d", "e", "f", "g", "h", "i", "j", "k", "l", "m",
               "n", "o", "p", "q", "r", "s", "t", "u", "v", "w", "x", "y", "z">>

(* mutant: the text is searched as it is, not lowered *)
LowerCharKeepsCase(c) == c

(* the lower-case letter of each upper-case letter *)
LowerOf ==
    [c \in Range(UpperCase) |->
        LowerCase[CHOOSE k \in DOMAIN UpperCase : UpperCase[k] = c]]

(* str.lower on one character *)
LowerChar(c) == IF c \in DOMAIN LowerOf THEN LowerOf[c] ELSE c

(* str.lower *)
Lower(text) == [i \in DOMAIN text |-> LowerChar(text[i])]

(* `needle in hay` on strings *)
Contains(needle, hay) ==
    \E k \in 0..(Len(hay) - Len(needle)) :
        SubSeq(hay, k + 1, k + Len(needle)) = needle

(* handle_error, lines 192-198: critical_errors *)
critical_errors == <<
    <<"i", "n", "v", "a", "l", "i", "d", " ", "s", "e", "s", "s", "i", "o",
       "n">>,
    <<"a", "c", "c", "o", "u", "n", "t", " ", "s", "u", "s", "p", "e", "n",
       "d", "e", "d">>,
    <<"r", "a", "t", "e", " ", "l", "i", "m", "i", "t", " ", "e", "x", "c",
       "e", "e", "d", "e", "d">>,
    <<"b", "l", "o", "c", "k", "e", "d">>,
    <<"l", "o", "g", "i", "n", " ", "r", "e", "q", "u", "i", "r", "e", "d">> >>

(* handle_error, lines 189-203: the text is that of a critical error *)
IsCritical(text) ==
    LET error_msg == Lower(text)
    IN  \E i \in DOMAIN critical_errors : Contains(critical_errors[i], error_msg)

(* mutant: every delay of the table is the first one *)
retry_delays_flat == <<5, 5, 5, 5, 5>>

(* ErrorHandler.__init__, line 184 *)
retry_delays == <<5, 10, 20, 30, 60>>

(* handle_error: what it returns and the seconds it sleeps, for attempt >= 1 *)
handle_error_result(text, n) ==
    IF IsCritical(text)
      THEN [retry |-> FALSE, kind |-> "critical", delay |-> 0]
      ELSE IF n <= Len(retry_delays)
        THEN [retry |-> TRUE, kind |-> "temporary", delay |-> retry_delays[n]]
        ELSE [retry |-> FALSE, kind |-> "max_retries", delay |-> 0]

(* time.sleep(seconds): the clock moves by the seconds slept; the date may   *)
(* change while the process sleeps.                                           *)
SleepFor(seconds) ==
    /\ now' = now + seconds
    /\ \/ today' = today
       \/ seconds > 0 /\ today < MaxDay /\ today' = today + 1

(* ErrorHandler.handle_error(error, context, attempt) with str(error) = text *)
handle_error(text, n) ==
    LET r == handle_error_result(text, n)
    IN  /\ ret' = [op |-> "handle_error", post_id |-> "", ok |-> r.retry,
                   reason |-> r.kind, reset |-> FALSE, wait |-> r.delay]
        /\ SleepFor(r.delay)

(* Texts of exceptions *)
TextInvalidSession ==   \* 'Invalid Session'
    <<"I", "n", "v", "a", "l", "i", "d", " ", "S", "e", "s", "s", "i", "o",
      "n">>

TextSuspended ==   \* 'ACCOUNT SUSPENDED'
    <<"A", "C", "C", "O", "U", "N", "T", " ", "S", "U", "S", "P", "E", "N",
      "D", "E", "D">>

TextRateLimit ==   \* 'Rate limit exceeded, slow down'
    <<"R", "a", "t", "e", " ", "l", "i", "m", "i", "t", " ", "e", "x", "c",
      "e", "e", "d", "e", "d", ",", " ", "s", "l", "o", "w", " ", "d", "o",
      "w", "n">>

TextUnblocked ==   \* 'user unblocked'
    <<"u", "s", "e", "r", " ", "u", "n", "b", "l", "o", "c", "k", "e", "d">>

TextLogin ==   \* 'Login required'
    <<"L", "o", "g", "i", "n", " ", "r", "e", "q", "u", "i", "r", "e", "d">>

TextTimeout ==   \* 'Timeout'
    <<"T", "i", "m", "e", "o", "u", "t">>

TextRateOnly ==   \* 'rate limit'
    <<"r", "a", "t", "e", " ", "l", "i", "m", "i", "t">>

TextEmpty ==   \* ''
    <<>>

TextTwoSpaces ==   \* 'invalid  session'
    <<"i", "n", "v", "a", "l", "i", "d", " ", " ", "s", "e", "s", "s", "i",
      "o", "n">>

TextBlock ==   \* 'block'
    <<"b", "l", "o", "c", "k">>

TextLoginUnderscore ==   \* 'login_required'
    <<"l", "o", "g", "i", "n", "_", "r", "e", "q", "u", "i", "r", "e", "d">>

ErrorTexts ==
    {TextInvalidSession, TextSuspended, TextRateLimit, TextUnblocked,
     TextLogin, TextTimeout, TextRateOnly, TextEmpty,
     TextTwoSpaces, TextBlock, TextLoginUnderscore}

(* SpecHandler: handle_error called with any of the texts and any attempt    *)
(* number from 1 on.                                                          *)
MaxAttempt == 7         \* largest attempt number passed to handle_error
MaxSlept == 90          \* handle_error is called until this many seconds were slept

InitHandler == Constructed(NoFile, TRUE, 100, Day1)

HdHandleError ==
    /\ now - 100 < MaxSlept
    /\ \E text \in ErrorTexts, n \in 1..MaxAttempt :
         /\ handle_error(text, n)
         /\ error' = Raised(text)
         /\ attempt' = n
    /\ UNCHANGED <<smVars, data_file, logVars, pc, posts, safe_posts, idx, success,
                   runs, results, calls, runVars>>

NextHandler == HdHandleError

SpecHandler == InitHandler /\ [][NextHandler]_vars

----------------------------------------------------------------------------
(* Spec: arbitrary calls of can_comment and record_comment on one manager,   *)
(* the storage writable, a few successful comments per process.               *)
Instants == {100, 129, 130, 3700}

StoredRecords ==
    {NoFile, data_to_save(0, Day1 - 1, {})} \cup
    {data_to_save(ct, lrd, cp) : ct \in {0, 48}, lrd \in {Day1}, cp \in {{}, {"p1"}}}

Init == \E file \in StoredRecords : Constructed(file, TRUE, 100, Day1)

ApiCanComment == CanCommentCall(Ids, {"ok"})
ApiRecordComment == RecordCommentCall(Ids, BOOLEAN, {"ok"}, MaxCalls)
ApiTick == Tick(Instants)
ApiMidnight == Midnight(Instants)

Next == ApiCanComment \/ ApiRecordComment \/ ApiTick \/ ApiMidnight

Spec == Init /\ [][Next]_vars

----------------------------------------------------------------------------
(* SpecLimits: the same calls with enough successful comments to reach the   *)
(* hourly limit, on a coarser clock.                                          *)
LimitInstants == {100, 101, 3701}

LimitRecords ==
    {NoFile, data_to_save(49, Day1, {"p1"})}

InitLimits == \E file \in LimitRecords : Constructed(file, TRUE, 100, Day1)

LimCanComment == CanCommentCall(Ids, {"ok"})
LimRecordComment == RecordCommentCall(Ids, BOOLEAN, {"ok"}, MaxBurst)
LimTick == Tick(LimitInstants)
LimMidnight == Midnight(LimitInstants)

NextLimits == LimCanComment \/ LimRecordComment \/ LimTick \/ LimMidnight

SpecLimits == InitLimits /\ [][NextLimits]_vars

----------------------------------------------------------------------------
(* SpecHourly: successful comments only, on a clock that steps around the    *)
(* one-hour boundary.                                                         *)
HourInstants == {100, 101, 3700, 3701}

InitHourly == Constructed(NoFile, TRUE, 100, Day1)

HrCanComment == CanCommentCall(Ids, {"ok"})
HrRecordComment == RecordCommentCall(Ids, {TRUE}, {"ok"}, MaxBurst)
HrTick == Tick(HourInstants)

NextHourly == HrCanComment \/ HrRecordComment \/ HrTick

SpecHourly == InitHourly /\ [][NextHourly]_vars

----------------------------------------------------------------------------
(* SpecGuarded: the discipline of _comment_on_posts_safely, main.py lines    *)
(* 135-147: a comment is recorded as successful only for the post that the   *)
(* latest can_comment allowed.  The posts of the feed are asked about in     *)
(* order: the caller asks about the next post not yet commented or about     *)
(* one already commented.                                                     *)
Feed == <<"p01", "p02", "p03", "p04", "p05", "p06", "p07", "p08", "p09", "p10",
          "p11", "p12", "p13">>

NextUnseen ==
    LET unseen == {k \in DOMAIN Feed : Feed[k] \notin commented_posts}
    IN  Feed[CHOOSE k \in unseen : \A j \in unseen : k <= j]

LastSeen ==
    LET seen == {k \in DOMAIN Feed : Feed[k] \in commented_posts}
    IN  IF seen = {} THEN {} ELSE {Feed[CHOOSE k \in seen : \A j \in seen : k >= j]}

GuardedInstants == {100 + 30 * k : k \in 0..10} \cup {129, 159, 3699, 3700}

InitGuarded == Constructed(NoFile, TRUE, 100, Day1)

GdCanComment == CanCommentCall({NextUnseen} \cup LastSeen, {"ok"})

GdRecordComment ==
    /\ approved # NoId
    /\ RecordCommentCall({approved}, BOOLEAN, {"ok"}, MaxBurst)

GdTick == Tick(GuardedInstants)

NextGuarded == GdCanComment \/ GdRecordComment \/ GdTick

SpecGuarded == InitGuarded /\ [][NextGuarded]_vars

----------------------------------------------------------------------------
(* SpecQueries: every call of the SafetyManager API, enough successful       *)
(* comments to pass each threshold of should_take_break and of               *)
(* get_recommended_delay, on a clock with one instant an hour later.          *)
MaxQueryBurst == 9      \* successful record_comment calls in SpecQueries
MaxQueryErrors == 3     \* value error_count reaches in SpecQueries

QueryInstants == {100, 3701}

QueryRecords == {NoFile, data_to_save(39, Day1, {})}

InitQueries == \E file \in QueryRecords : Constructed(file, TRUE, 100, Day1)

QCanComment == CanCommentCall(Ids, {"ok"})

QRecordComment ==
    /\ RecordCommentCall({"p1"}, BOOLEAN, {"ok"}, MaxQueryBurst)
    /\ error_count' <= MaxQueryErrors

QResetDaily ==
    /\ reset_daily_counters_if_needed("ok")
    /\ LogQuery("ok")
    /\ UNCHANGED <<envVars, sessVars>>

QShouldTakeBreak ==
    /\ should_take_break
    /\ LogQuery("ok")
    /\ UNCHANGED <<envVars, sessVars>>

QRecommendedDelay ==
    /\ \E variation \in Variations : get_recommended_delay(variation)
    /\ LogQuery("ok")
    /\ UNCHANGED <<envVars, sessVars>>

QStatusReport ==
    /\ get_status_report("ok")
    /\ LogQuery("ok")
    /\ UNCHANGED <<envVars, sessVars>>

QTick == Tick(QueryInstants)
QMidnight == Midnight(QueryInstants)

NextQueries ==
    \/ QCanComment
    \/ QRecordComment
    \/ QResetDaily
    \/ QShouldTakeBreak
    \/ QRecommendedDelay
    \/ QStatusReport
    \/ QTick
    \/ QMidnight

SpecQueries == InitQueries /\ [][NextQueries]_vars

----------------------------------------------------------------------------
(* SpecRuns: processes of main.py, one session each, one after the other on  *)
(* the same logs/safety_data.json; a save may fail and the record may be     *)
(* unreadable when a process starts.                                          *)
MaxPosts == 2       \* posts a scrape returns
MaxRuns == 3        \* processes started

RunInstants == {100, 130, 160, 4000}

RECURSIVE ListsOver(_, _)
(* the lists of at most n distinct elements of S *)
ListsOver(S, n) ==
    IF n = 0 THEN {<<>>}
    ELSE LET shorter == ListsOver(S, n - 1)
         IN  shorter \cup {Append(l, x) : l \in shorter, x \in S}

(* get_recent_posts: a post id enters the list once (processed_posts) *)
PostLists == {l \in ListsOver(Ids, MaxPosts) : Cardinality(Range(l)) = Len(l)}

(* Time passes while the process works, sleeps or is not running. *)
TimePasses ==
    \E t \in RunInstants \cup {now} :
        /\ t >= now
        /\ now' = t
        /\ \/ today' = today
           \/ t > now /\ today < MaxDay /\ today' = today + 1

(* The values os.getenv gives for the two credentials and for GROUP_ID; ""  *)
(* is the value of a variable that is not set or is empty                    *)
Secrets == {"", "secret"}
GroupIds == {"", "426796887732920"}

Configs ==
    [facebook_email : Secrets, facebook_password : Secrets, group_id : GroupIds,
     read : {TRUE}]

(* mutant: the password is not looked at *)
validate_email_only(cfg) == cfg.facebook_email # "" /\ cfg.group_id # ""

(* Config.validate *)
validate(cfg) ==
    IF cfg.facebook_email = "" \/ cfg.facebook_password = "" THEN FALSE
    ELSE IF cfg.group_id = "" THEN FALSE
    ELSE TRUE

(* run(), lines 33-49: validation, the status report, the break check *)
RunStart ==
    /\ pc = "start"
    /\ \E cfg \in Configs, outcome \in SaveOutcomes :
         /\ config' = cfg
         /\ IF validate(cfg)
              THEN /\ get_status_report(outcome)
                   /\ LogQuery(outcome)
                   /\ IF should_take_break_reason(comments_today', hourly_comments',
                                                  error_count') # "no_break"
                        THEN pc' = "done" /\ result' = Returned(TRUE, FALSE)
                        ELSE pc' = "browser" /\ result' = result
              ELSE /\ pc' = "done"
                   /\ result' = Returned(FALSE, FALSE)
                   /\ ret' = NoCall
                   /\ UNCHANGED <<smVars, data_file, logVars>>
    /\ UNCHANGED <<envVars, posts, safe_posts, idx, success, runs, retryVars, submitted>>

(* _run_scraping_session, lines 64-93: driver, login, navigation, scraping *)
BrowseFor(lists) ==
    /\ pc = "browser"
    /\ TimePasses
    /\ \E up \in BOOLEAN, found \in lists :
         IF up /\ found # <<>>
           THEN /\ posts' = found
                /\ idx' = 1
                /\ pc' = "filter"
                /\ result' = result
           ELSE /\ pc' = "done"
                /\ result' = Returned(up, FALSE)
                /\ UNCHANGED <<posts, idx>>
    /\ safe_posts' = <<>>
    /\ ret' = NoCall
    /\ UNCHANGED <<smVars, data_file, logVars, success, runs, retryVars, config,
                   submitted>>

Browse == BrowseFor(PostLists)

(* _run_scraping_session, lines 95-106: the pre-filter over posts *)
Filter ==
    /\ pc = "filter"
    /\ \E outcome \in SaveOutcomes :
         /\ can_comment(posts[idx], outcome)
         /\ LogQuery(outcome)
    /\ safe_posts' = (IF ret'.ok THEN Append(safe_posts, posts[idx]) ELSE safe_posts)
    /\ IF idx < Len(posts)
         THEN /\ idx' = idx + 1
              /\ pc' = "filter"
         ELSE /\ idx' = 1
              /\ pc' = (IF safe_posts' = <<>> THEN "done" ELSE "check")
    /\ results' = (IF pc' = "check" THEN NewResults(Len(safe_posts')) ELSE results)
    /\ result' = (IF pc' = "done" THEN Returned(TRUE, FALSE) ELSE result)
    /\ UNCHANGED <<envVars, posts, success, runs, attempt, error, calls, config,
                   submitted>>

(* the end of the loop body: the next post, or _log_session_results *)
Advance ==
    /\ idx' = idx + 1
    /\ pc' = (IF idx < Len(safe_posts) THEN "check" ELSE "finish")

(* mutant: a denied post is counted as failed *)
CountSkippedAsFailed(r) == [r EXCEPT !.failed_comments = @ + 1]

(* line 138: results['skipped_posts'] += 1 *)
CountSkipped(r) == [r EXCEPT !.skipped_posts = @ + 1]

(* _comment_on_posts_safely, lines 134-139: the final safety check; a post  *)
(* that is denied is counted as skipped                                      *)
Check ==
    /\ pc = "check"
    /\ \E outcome \in SaveOutcomes :
         /\ can_comment(safe_posts[idx], outcome)
         /\ LogQuery(outcome)
    /\ IF ret'.ok
         THEN /\ pc' = "attempt"
              /\ idx' = idx
              /\ attempt' = 1
              /\ results' = results
         ELSE /\ Advance
              /\ attempt' = attempt
              /\ results' = CountSkipped(results)
    /\ calls' = 0
    /\ error' = NoError
    /\ UNCHANGED <<envVars, posts, safe_posts, success, runs, runVars>>

(* mutant: as many attempts as retry_delays has entries *)
max_attempts_as_retry_delays == Len(retry_delays)

(* _attempt_comment_with_retry, max_attempts=3 *)
max_attempts == 3

(* mutant: a fatal error of the poster is retried like any other *)
AfterErrorAlwaysRetry(retry, n) ==
    IF n < max_attempts
      THEN [pc |-> "attempt", attempt |-> n + 1]
      ELSE [pc |-> "record", attempt |-> 0]

(* _attempt_comment_with_retry, lines 185-191: where the loop goes after     *)
(* handle_error returned `retry` in attempt n: the next attempt, or out of   *)
(* the function with False                                                    *)
AfterError(retry, n) ==
    IF retry /\ n < max_attempts
      THEN [pc |-> "attempt", attempt |-> n + 1]
      ELSE [pc |-> "record", attempt |-> 0]

(* _attempt_comment_with_retry, lines 179-184: the post is handed to the     *)
(* poster, which comments, does not, or raises an exception whose text is    *)
(* one of `errors`                                                            *)
PosterCall(errors) ==
    /\ pc = "attempt"
    /\ TimePasses
    /\ calls' = calls + 1
    /\ \/ /\ success' \in BOOLEAN
          /\ submitted' = (IF success' THEN submitted \cup {safe_posts[idx]}
                                       ELSE submitted)
          /\ pc' = "record"
          /\ attempt' = 0
          /\ error' = NoError
       \/ /\ \E text \in errors : error' = Raised(text)
          /\ pc' = "handle"
          /\ UNCHANGED <<success, attempt, submitted>>
    /\ ret' = NoCall
    /\ UNCHANGED <<smVars, data_file, logVars, posts, safe_posts, idx, runs, results,
                   config, result>>

(* _attempt_comment_with_retry, lines 184-191: the exception is given to     *)
(* handle_error, which says whether to go on                                 *)
Handle ==
    /\ pc = "handle"
    /\ handle_error(error.text, attempt)
    /\ LET next == AfterError(ret'.ok, attempt)
       IN  /\ pc' = next.pc
           /\ attempt' = next.attempt
           /\ success' = (IF next.pc = "record" THEN FALSE ELSE success)
    /\ UNCHANGED <<smVars, data_file, logVars, posts, safe_posts, idx, runs,
                   results, calls, error, runVars>>

(* lines 146-161: the attempt is recorded and counted, then the break check *)
Record ==
    /\ pc = "record"
    /\ \E outcome \in SaveOutcomes :
         /\ record_comment(safe_posts[idx], success, outcome)
         /\ LogRecord(safe_posts[idx], success, outcome)
    /\ LET stop == should_take_break_reason(comments_today', hourly_comments',
                                            error_count') # "no_break"
           counted == IF success
                        THEN [results EXCEPT !.successful_comments = @ + 1]
                        ELSE [results EXCEPT !.failed_comments = @ + 1]
       IN  /\ pc' = (IF stop THEN "finish" ELSE "sleep")
           /\ results' = (IF stop THEN [counted EXCEPT !.safety_stops = @ + 1]
                                  ELSE counted)
    /\ UNCHANGED <<envVars, posts, safe_posts, idx, success, runs, attempt, error,
                   calls, runVars>>

(* lines 163-166: the wait before the next post *)
Sleep ==
    /\ pc = "sleep"
    /\ TimePasses
    /\ Advance
    /\ ret' = NoCall
    /\ UNCHANGED <<smVars, data_file, logVars, posts, safe_posts, success, runs,
                   retryVars, runVars>>

(* _log_session_results, lines 193-206 *)
Finish ==
    /\ pc = "finish"
    /\ \E outcome \in SaveOutcomes :
         /\ get_status_report(outcome)
         /\ LogQuery(outcome)
    /\ pc' = "done"
    /\ result' = Returned(TRUE, TRUE)
    /\ UNCHANGED <<envVars, posts, safe_posts, idx, success, runs, retryVars, config,
                   submitted>>

(* The process has ended; later the program is started again: main(), *)
(* JDGrowthScraper.__init__                                           *)
Restart ==
    /\ pc = "done"
    /\ runs < MaxRuns
    /\ TimePasses
    /\ \E readable \in BOOLEAN :
         LET sm == SafetyManagerNew(data_file, readable, today') IN
         /\ comments_today' = sm.comments_today
         /\ last_reset_date' = sm.last_reset_date
         /\ commented_posts' = sm.commented_posts
         /\ error_count' = sm.error_count
         /\ hourly_comments' = sm.hourly_comments
         /\ last_comment_time' = sm.last_comment_time
         /\ boot' = [comments_today |-> sm.comments_today,
                     last_reset_date |-> sm.last_reset_date,
                     commented_posts |-> sm.commented_posts, day |-> today']
         /\ io_failed' = (io_failed \/ (data_file.kind # "absent" /\ ~readable)
                                    \/ data_file.kind = "corrupt")
    /\ history' = <<>>
    /\ recorded' = {}
    /\ approved' = NoId
    /\ pc' = "start"
    /\ posts' = <<>>
    /\ safe_posts' = <<>>
    /\ idx' = 0
    /\ success' = FALSE
    /\ runs' = runs + 1
    /\ ret' = NoCall
    /\ attempt' = 0
    /\ error' = NoError
    /\ results' = NewResults(0)
    /\ calls' = 0
    /\ config' = NoConfig
    /\ result' = Running
    /\ submitted' = {}
    /\ UNCHANGED <<data_file, done>>

InitRuns == Constructed(NoFile, TRUE, 100, Day1)

(* The poster of main.py is CommentBot.comment_on_posts, which catches what  *)
(* goes wrong with a post (comment_bot.py lines 66-72) and returns its tally *)
RunAttempt == PosterCall({})

NextRuns ==
    \/ RunStart
    \/ Browse
    \/ Filter
    \/ Check
    \/ RunAttempt
    \/ Record
    \/ Sleep
    \/ Finish
    \/ Restart

SpecRuns == InitRuns /\ [][NextRuns]_vars

----------------------------------------------------------------------------
(* SpecSession: one process of main.py with a poster that may raise, as      *)
(* _attempt_comment_with_retry provides for: a fatal and a transient error.  *)
PosterErrors == {TextSuspended, TextTimeout}

SessionRecords == {NoFile, data_to_save(39, Day1, {})}

InitSession == \E file \in SessionRecords : Constructed(file, TRUE, 100, Day1)

Attempt == PosterCall(PosterErrors)

NextSession ==
    \/ RunStart
    \/ Browse
    \/ Filter
    \/ Check
    \/ Attempt
    \/ Handle
    \/ Record
    \/ Sleep
    \/ Finish

SpecSession == InitSession /\ [][NextSession]_vars

----------------------------------------------------------------------------
(* SpecFaults: the session of SpecSession in which a step of the loop body   *)
(* may raise an exception that nothing below the loop catches: can_comment   *)
(* or record_comment on a counter that is not a number, handle_error,        *)
(* get_recommended_delay on a DELAY_BETWEEN_COMMENTS that is not a number.   *)
TextValueError ==   \* 'invalid literal'
    <<"i", "n", "v", "a", "l", "i", "d", " ", "l", "i", "t", "e", "r", "a", "l">>

(* mutant: the handler of the loop body does not count the post *)
CountFailedNot(r) == r

(* line 170: results['failed_comments'] += 1 *)
CountFailed(r) == [r EXCEPT !.failed_comments = @ + 1]

(* mutant: the handler of the loop body tells the SafetyManager of the       *)
(* failure, as record_comment(post_id, False) would                          *)
NotRecordedButCounted ==
    /\ RecordFailure
    /\ UNCHANGED <<last_reset_date, data_file>>

(* lines 168-173 make no call of the SafetyManager *)
NotRecorded == UNCHANGED <<smVars, data_file>>

(* _comment_on_posts_safely, lines 133-166: a statement of the loop body     *)
(* raises before it has changed anything                                      *)
Unexpected ==
    /\ pc \in {"check", "handle", "record", "sleep"}
    /\ pc' = "except"
    /\ error' = Raised(TextValueError)
    /\ ret' = NoCall
    /\ UNCHANGED <<smVars, data_file, envVars, logVars, posts, safe_posts, idx,
                   success, runs, attempt, results, calls, runVars>>

(* lines 168-173: the exception is logged, the post counted as failed, the   *)
(* loop sleeps 5 seconds and goes to the next post                           *)
Except ==
    /\ pc = "except"
    /\ results' = CountFailed(results)
    /\ NotRecorded
    /\ SleepFor(5)
    /\ Advance
    /\ attempt' = 0
    /\ ret' = NoCall
    /\ UNCHANGED <<logVars, posts, safe_posts, success, runs, error, calls, runVars>>

NextFaults ==
    \/ RunStart
    \/ Browse
    \/ Filter
    \/ Check
    \/ Attempt
    \/ Handle
    \/ Record
    \/ Sleep
    \/ Finish
    \/ Unexpected
    \/ Except

SpecFaults == InitSession /\ [][NextFaults]_vars

----------------------------------------------------------------------------
(* SpecInterrupt: the session of SpecSession, which Ctrl-C may end at any    *)
(* point between the start of run() and its return.                           *)

(* run(), lines 55-57: KeyboardInterrupt arrives, is caught, run() returns   *)
(* True                                                                       *)
Interrupt ==
    /\ pc # "done"
    /\ pc' = "done"
    /\ result' = Interrupted
    /\ ret' = NoCall
    /\ UNCHANGED <<smVars, data_file, envVars, logVars, posts, safe_posts, idx,
                   success, runs, retryVars, config, submitted>>

NextInterrupt ==
    \/ RunStart
    \/ Browse
    \/ Filter
    \/ Check
    \/ Attempt
    \/ Handle
    \/ Record
    \/ Sleep
    \/ Finish
    \/ Interrupt

SpecInterrupt == InitSession /\ [][NextInterrupt]_vars

----------------------------------------------------------------------------
(* SpecIdle: the session of SpecSession started on a record that already     *)
(* names every post the group can show, so that the pre-filter may leave     *)
(* nothing to comment on.                                                     *)
IdleRecords == {NoFile, data_to_save(2, Day1, Ids)}

InitIdle == \E file \in IdleRecords : Constructed(file, TRUE, 100, Day1)

SpecIdle == InitIdle /\ [][NextSession]_vars

----------------------------------------------------------------------------
(* SpecLoad: the process is started on every shape of logs/safety_data.json  *)
(* that json.load accepts or rejects, readable or not, and then uses the     *)
(* SafetyManager.  main() constructs JDGrowthScraper, and with it the        *)
(* SafetyManager, outside its try (main.py line 214): an exception of the    *)
(* constructor ends the process.                                              *)
MaxLoadCalls == 2       \* successful record_comment calls in SpecLoad

LoadInstants == {100, 131}

LoadFiles ==
    {NoFile, Corrupt,
     data_to_save(3, Day1, {"p1"}),
     [kind |-> "record", has |-> {"comments_today"}, comments_today |-> 3,
      last_reset_date |-> 0, commented_posts |-> <<>>],
     [kind |-> "record", has |-> {"last_reset_date", "commented_posts"},
      comments_today |-> 0, last_reset_date |-> 0, commented_posts |-> <<"p1">>],
     [kind |-> "null_posts", has |-> Keys, comments_today |-> 3,
      last_reset_date |-> Day1, commented_posts |-> <<>>],
     [kind |-> "array", has |-> {}, comments_today |-> 0,
      last_reset_date |-> 0, commented_posts |-> <<>>]}

(* SafetyManager.__init__ raised at line 21, 22 or 23: no manager exists *)
Crashed(file, clock, day) ==
    /\ pc = "crashed"
    /\ posts = <<>>
    /\ safe_posts = <<>>
    /\ idx = 0
    /\ success = FALSE
    /\ runs = 1
    /\ attempt = 0
    /\ error = NoError
    /\ results = NewResults(0)
    /\ calls = 0
    /\ config = NoConfig
    /\ result = Running
    /\ submitted = {}
    /\ done = {}
    /\ io_failed = FALSE
    /\ comments_today = 0
    /\ last_reset_date = 0
    /\ commented_posts = {}
    /\ error_count = 0
    /\ hourly_comments = <<>>
    /\ last_comment_time = None
    /\ data_file = file
    /\ now = clock
    /\ today = day
    /\ ret = NoCall
    /\ boot = [comments_today |-> 0, last_reset_date |-> 0,
               commented_posts |-> {}, day |-> day]
    /\ history = <<>>
    /\ recorded = {}
    /\ approved = NoId

InitLoad ==
    \E file \in LoadFiles, readable \in BOOLEAN :
        IF SafetyManagerRaises(file, readable)
          THEN Crashed(file, 100, Day1)
          ELSE Constructed(file, readable, 100, Day1)

LdCanComment ==
    /\ pc # "crashed"
    /\ CanCommentCall(Ids, {"ok"})

LdRecordComment ==
    /\ pc # "crashed"
    /\ RecordCommentCall(Ids, BOOLEAN, {"ok"}, MaxLoadCalls)

LdTick ==
    /\ pc # "crashed"
    /\ Tick(LoadInstants)

LdMidnight ==
    /\ pc # "crashed"
    /\ Midnight(LoadInstants)

NextLoad == LdCanComment \/ LdRecordComment \/ LdTick \/ LdMidnight

SpecLoad == InitLoad /\ [][NextLoad]_vars

----------------------------------------------------------------------------
(* SpecPacing: one process of main.py whose wait between two posts is the    *)
(* time.sleep of the delay get_recommended_delay returns, to the second.     *)

(* _comment_on_posts_safely, lines 163-166: delay = get_recommended_delay(), *)
(* time.sleep(delay), then the next post                                      *)
PacedSleep ==
    /\ pc = "sleep"
    /\ \E variation \in Variations : get_recommended_delay(variation)
    /\ LogQuery("ok")
    /\ SleepFor(ret'.wait \div 100)
    /\ Advance
    /\ UNCHANGED <<posts, safe_posts, success, runs, retryVars, runVars>>

NextPacing ==
    \/ RunStart
    \/ Browse
    \/ Filter
    \/ Check
    \/ RunAttempt
    \/ Record
    \/ PacedSleep
    \/ Finish

SpecPacing == InitRuns /\ [][NextPacing]_vars

----------------------------------------------------------------------------
(* SpecDaily: the processes of SpecRuns, the first of which may find the     *)
(* record of a day on which 38 comments have been made already.              *)
DailyRecords == {NoFile, data_to_save(38, Day1, {})}

InitDaily == \E file \in DailyRecords : Constructed(file, TRUE, 100, Day1)

SpecDaily == InitDaily /\ [][NextRuns]_vars

----------------------------------------------------------------------------
(* SpecErrors: one process of main.py on a group that shows up to MaxFeed    *)
(* posts, enough for three failures in a row with a post left over.          *)
MaxFeed == 4        \* posts a scrape returns in SpecErrors

FeedLists == {SubSeq(Feed, 1, n) : n \in 0..MaxFeed}

BrowseFeed == BrowseFor(FeedLists)

NextErrors ==
    \/ RunStart
    \/ BrowseFeed
    \/ Filter
    \/ Check
    \/ RunAttempt
    \/ Record
    \/ Sleep
    \/ Finish

SpecErrors == InitRuns /\ [][NextErrors]_vars

----------------------------------------------------------------------------
(* SpecBot: one process of main.py whose poster is CommentBot, called with   *)
(* one post.  A post is its post_id; the posts h1, h2, h3 are those the      *)
(* scraper marked has_commented.  submitted is CommentBot.commented_posts.   *)
Hinted == {"h1", "h2", "h3"}

(* Post.has_commented *)
has_commented(post) == post \in Hinted

BotFeeds == {<<"h1", "h2", "h3", "p1">>, <<"p1", "h1", "p2">>}

MaxBotPosts == 4    \* posts a scrape returns in SpecBot

BotLists ==
    {SubSeq(feed, 1, IF n <= Len(feed) THEN n ELSE Len(feed)) :
        feed \in BotFeeds, n \in 0..MaxBotPosts}

(* where the body of the loop of comment_on_posts raises: nowhere, before    *)
(* _add_comment_to_post (line 44), or after it (lines 57-62)                 *)
BotFaults == {"none", "before_add", "after_add"}

(* comment_on_posts([post]), lines 33-72: skip is the test of line 36, added *)
(* what _add_comment_to_post returns (False also when it caught an           *)
(* exception, lines 111-113), fault where the body raised; the except of     *)
(* line 64 counts a failure and raises nothing                               *)
bot_results(skip, added, fault) ==
    [raises |-> FALSE,
     skipped_posts |-> IF skip THEN 1 ELSE 0,
     successful_comments |-> IF ~skip /\ fault # "before_add" /\ added THEN 1 ELSE 0,
     failed_comments |->
         IF skip THEN 0
         ELSE (IF fault # "before_add" /\ ~added THEN 1 ELSE 0)
                  + (IF fault # "none" THEN 1 ELSE 0),
     caught |-> ~skip /\ fault # "none"]

(* mutant: the exception of the loop body leaves comment_on_posts *)
comment_on_posts_reraises(hinted, seen, added, fault) ==
    [bot_results(hinted \/ seen, added, fault) EXCEPT
        !.raises = ~(hinted \/ seen) /\ fault # "none"]

(* mutant: the has_commented hint is not looked at *)
comment_on_posts_ignores_hint(hinted, seen, added, fault) ==
    bot_results(seen, added, fault)

(* CommentBot.comment_on_posts for a list of one post *)
comment_on_posts(hinted, seen, added, fault) ==
    bot_results(hinted \/ seen, added, fault)

(* _attempt_comment_with_retry, lines 179-185, with CommentBot as poster:    *)
(* return single_post_results['successful_comments'] > 0, or the except      *)
(* branch when the call raises                                               *)
BotAttempt ==
    /\ pc = "attempt"
    /\ TimePasses
    /\ calls' = calls + 1
    /\ \E added \in BOOLEAN, fault \in BotFaults :
         LET post == safe_posts[idx]
             r == comment_on_posts(has_commented(post), post \in submitted, added, fault)
         IN  /\ submitted' = (IF r.successful_comments > 0
                                THEN submitted \cup {post} ELSE submitted)
             /\ ret' = [op |-> "comment_on_posts", post_id |-> post,
                        ok |-> r.successful_comments > 0,
                        reason |-> (IF r.skipped_posts > 0 THEN "skipped"
                                    ELSE IF r.caught THEN "caught" ELSE "done"),
                        reset |-> FALSE, wait |-> 0]
             /\ IF r.raises
                  THEN /\ error' = Raised(TextTimeout)
                       /\ pc' = "handle"
                       /\ UNCHANGED <<success, attempt>>
                  ELSE /\ success' = (r.successful_comments > 0)
                       /\ pc' = "record"
                       /\ attempt' = 0
                       /\ error' = NoError
    /\ UNCHANGED <<smVars, data_file, logVars, posts, safe_posts, idx, runs, results,
                   config, result>>

BrowseBot == BrowseFor(BotLists)

NextBot ==
    \/ RunStart
    \/ BrowseBot
    \/ Filter
    \/ Check
    \/ BotAttempt
    \/ Record
    \/ Sleep
    \/ Finish

SpecBot == InitRuns /\ [][NextBot]_vars

----------------------------------------------------------------------------
(* SpecUnexpected: the session of SpecErrors, up to MaxFeed posts, in which  *)
(* a step of the loop body may raise as in SpecFaults.                       *)
NextUnexpected ==
    \/ RunStart
    \/ BrowseFeed
    \/ Filter
    \/ Check
    \/ RunAttempt
    \/ Record
    \/ Sleep
    \/ Finish
    \/ Unexpected
    \/ Except

SpecUnexpected == InitRuns /\ [][NextUnexpected]_vars

----------------------------------------------------------------------------
(* Properties *)

(* The denial conditions as the contract words them, read off the log of    *)
(* this process's successful comments rather than off the pruned list.       *)
CountWithin(h, clock, span) == Cardinality({i \in DOMAIN h : clock - h[i] < span})

AlreadyCommented(post_id) == post_id \in commented_posts
DailyLimitReached == comments_today >= MAX_COMMENTS_PER_DAY
HourlyLimitReached == CountWithin(history, now, HOUR) >= MAX_COMMENTS_PER_HOUR
LastCommentTooRecent ==
    /\ history # <<>>
    /\ now - history[Len(history)] < MIN_DELAY_BETWEEN_COMMENTS
TooManyErrors == error_count >= MAX_CONSECUTIVE_ERRORS

FirstDenial(post_id) ==
    CASE AlreadyCommented(post_id) -> "already_commented"
      [] ~AlreadyCommented(post_id) /\ DailyLimitReached -> "daily_limit"
      [] ~AlreadyCommented(post_id) /\ ~DailyLimitReached /\ HourlyLimitReached
            -> "hourly_limit"
      [] ~AlreadyCommented(post_id) /\ ~DailyLimitReached /\ ~HourlyLimitReached
            /\ LastCommentTooRecent -> "too_soon"
      [] ~AlreadyCommented(post_id) /\ ~DailyLimitReached /\ ~HourlyLimitReached
            /\ ~LastCommentTooRecent /\ TooManyErrors -> "too_many_errors"
      [] OTHER -> "safe"

(* C1: whatever the counters are, can_comment(post_id) with post_id in       *)
(* commented_posts returns (False, already commented).                        *)
C1_AlreadyCommentedDenied ==
    (ret.op = "can_comment" /\ ret.post_id \in commented_posts)
        => (~ret.ok /\ ret.reason = "already_commented")

(* C1 witness: the denial is given while the daily limit, the hourly limit,  *)
(* the minimum delay and the error limit would each deny too.                *)
C1_Witness ==
    /\ ret.op = "can_comment"
    /\ ret.post_id \in commented_posts
    /\ ret.reason = "already_commented"
    /\ DailyLimitReached
    /\ HourlyLimitReached
    /\ LastCommentTooRecent
    /\ TooManyErrors

(* C3: with comments_today at MAX_COMMENTS_PER_DAY, can_comment of an unseen *)
(* id is denied with the daily limit as long as the date is last_reset_date, *)
(* comments_today only leaves the limit through the daily reset, and the     *)
(* first can_comment on another date resets it to 0 and does not report the  *)
(* daily limit.                                                               *)
C3_DailyLimitUntilNewDay ==
    [][ /\ (ret'.op = "can_comment" /\ comments_today >= MAX_COMMENTS_PER_DAY
             /\ ret'.post_id \notin commented_posts)
            => IF last_reset_date = today
                 THEN /\ ~ret'.ok
                      /\ ret'.reason = "daily_limit"
                      /\ comments_today' = comments_today
                 ELSE /\ comments_today' = 0
                      /\ last_reset_date' = today
                      /\ ret'.reason # "daily_limit"
        /\ (comments_today >= MAX_COMMENTS_PER_DAY
             /\ comments_today' < MAX_COMMENTS_PER_DAY)
            => (ret'.op = "can_comment" /\ last_reset_date # today)
      ]_vars

(* C3 witness: a can_comment on the day after the limit was reached has      *)
(* reset the counter and allows an unseen post.                               *)
C3_Witness ==
    /\ ret.op = "can_comment"
    /\ ret.reset
    /\ ret.ok
    /\ boot.comments_today + Len(history) >= MAX_COMMENTS_PER_DAY
    /\ today = boot.day + 1
    /\ comments_today = 0

(* C7: can_comment allows exactly when none of the five denial conditions    *)
(* holds, and otherwise reports the first that holds in the order already    *)
(* commented, daily limit, hourly limit, too soon, too many errors.          *)
C7_FirstFailingCheckWins ==
    ret.op = "can_comment"
        => /\ ret.reason = FirstDenial(ret.post_id)
           /\ ret.ok <=> (/\ ~AlreadyCommented(ret.post_id)
                          /\ ~DailyLimitReached
                          /\ ~HourlyLimitReached
                          /\ ~LastCommentTooRecent
                          /\ ~TooManyErrors)

(* C7 witness: the hourly limit is reported while the minimum delay and the  *)
(* error limit would deny as well.                                            *)
C7_Witness ==
    /\ ret.op = "can_comment"
    /\ ret.reason = "hourly_limit"
    /\ LastCommentTooRecent
    /\ TooManyErrors

(* The process started from zero counters, the date has not changed and no  *)
(* daily reset has run since.                                                *)
StartedFromZero ==
    /\ boot.comments_today = 0
    /\ boot.commented_posts = {}

NoResetSinceStart == last_reset_date = boot.last_reset_date

(* C8: from zero counters and within the day of construction, comments_today *)
(* is the number of record_comment(id, True) calls, repeats included, and    *)
(* commented_posts holds exactly the distinct ids of those calls, the saved  *)
(* list naming each once.                                                     *)
C8_CountsCallsAndDistinctIds ==
    (StartedFromZero /\ today = boot.day /\ NoResetSinceStart)
        => /\ comments_today = Len(history)
           /\ commented_posts = recorded
           /\ (ret.op = "record_comment" /\ data_file.kind = "record")
                 => /\ Len(data_file.commented_posts) = Cardinality(recorded)
                    /\ Range(data_file.commented_posts) = recorded

(* C8 witness: the same id was recorded more than once. *)
C8_Witness ==
    /\ StartedFromZero
    /\ today = boot.day
    /\ ret.op = "record_comment"
    /\ ret.ok
    /\ comments_today >= 3
    /\ Cardinality(commented_posts) = 1

(* C9: a record_comment(id, False) adds exactly 1 to error_count and a       *)
(* record_comment(id, True) sets it to 0.                                     *)
C9_ErrorCountStep ==
    [][ ret'.op = "record_comment"
          => IF ret'.ok THEN error_count' = 0
                        ELSE error_count' = error_count + 1 ]_vars

(* C9 witness: failures were counted beyond the limit of can_comment. *)
C9_Witness ==
    /\ ret.op = "record_comment"
    /\ ~ret.ok
    /\ error_count > MAX_CONSECUTIVE_ERRORS

(* C10: a failed record_comment changes none of comments_today,              *)
(* commented_posts, the hourly list, last_comment_time and last_reset_date;  *)
(* a successful one adds 1 to comments_today, adds the id, appends the       *)
(* current time to the hourly list and sets last_comment_time to it.         *)
C10_RecordCommentFrame ==
    [][ ret'.op = "record_comment"
          => IF ret'.ok
               THEN /\ comments_today' = comments_today + 1
                    /\ commented_posts' = commented_posts \cup {ret'.post_id}
                    /\ hourly_comments' = Append(hourly_comments, now)
                    /\ last_comment_time' = now
               ELSE UNCHANGED <<comments_today, commented_posts, hourly_comments,
                               last_comment_time, last_reset_date>> ]_vars

(* C10 witness: a failed attempt recorded after a successful one. *)
C10_Witness ==
    /\ ret.op = "record_comment"
    /\ ~ret.ok
    /\ history # <<>>
    /\ last_comment_time = history[Len(history)]
    /\ comments_today = boot.comments_today + Len(history)

(* C4: when every successful record_comment follows a can_comment of the     *)
(* same id that allowed it, no trailing window of 3600 seconds (t-3600, t]   *)
(* holds more than MAX_COMMENTS_PER_HOUR successful comments.                *)
WindowCount(t) ==
    Cardinality({i \in DOMAIN history : history[i] > t - HOUR /\ history[i] <= t})

C4_HourlyCapUnderGuard ==
    \A t \in Range(history) \cup {now} : WindowCount(t) <= MAX_COMMENTS_PER_HOUR

(* C4 witness: an eleventh comment was recorded once the first had left the  *)
(* window, which holds the full ten.                                          *)
C4_Witness ==
    /\ ret.op = "record_comment"
    /\ ret.ok
    /\ Len(history) = MAX_COMMENTS_PER_HOUR + 1
    /\ WindowCount(now) = MAX_COMMENTS_PER_HOUR

(* C5: when can_comment reaches its hourly check, the list it counts holds   *)
(* no timestamp older than 3600 seconds and every timestamp less than 3600   *)
(* seconds old, and the hourly limit is reported on that count.              *)
Occurrences(h, t) == Cardinality({i \in DOMAIN h : h[i] = t})

C5_HourlyWindowPruned ==
    (ret.op = "can_comment" /\ ret.reason \notin {"already_commented", "daily_limit"})
        => /\ \A t \in Range(history) :
                /\ now - t > HOUR => Occurrences(hourly_comments, t) = 0
                /\ now - t < HOUR
                     => Occurrences(hourly_comments, t) = Occurrences(history, t)
           /\ Range(hourly_comments) \subseteq Range(history)
           /\ (ret.reason = "hourly_limit")
                 <=> (Len(hourly_comments) >= MAX_COMMENTS_PER_HOUR)

(* C5 witness: ten successes recorded at t0 and a check at t0 + 3601 that    *)
(* counts none of them.                                                       *)
C5_Witness ==
    /\ ret.op = "can_comment"
    /\ ret.ok
    /\ Len(history) = 10
    /\ \A i \in DOMAIN history : now - history[i] = HOUR + 1
    /\ hourly_comments = <<>>

(* C6: can_comment of an unseen id less than MIN_DELAY_BETWEEN_COMMENTS      *)
(* seconds after the last successful record_comment is denied as too soon    *)
(* when neither the daily nor the hourly limit is reached, and consecutive   *)
(* successful comments are at least that far apart.                           *)
C6_MinimumDelay ==
    /\ (/\ ret.op = "can_comment"
         /\ ret.post_id \notin commented_posts
         /\ LastCommentTooRecent
         /\ ~DailyLimitReached
         /\ ~HourlyLimitReached)
           => /\ ~ret.ok
              /\ ret.reason = "too_soon"
              /\ ret.wait = MIN_DELAY_BETWEEN_COMMENTS - (now - history[Len(history)])
    /\ \A i \in DOMAIN history :
           i > 1 => history[i] - history[i - 1] >= MIN_DELAY_BETWEEN_COMMENTS

(* C6 witness: two comments exactly 30 seconds apart, and a third asked for  *)
(* 29 seconds after the second, denied with one second to wait.              *)
C6_Witness ==
    /\ ret.op = "can_comment"
    /\ ret.reason = "too_soon"
    /\ ret.wait = 1
    /\ Len(history) = 2
    /\ history[2] - history[1] = MIN_DELAY_BETWEEN_COMMENTS

RunsDailyReset(call) ==
    call.op \in {"reset_daily_counters_if_needed", "can_comment", "get_status_report"}

(* C11: reset_daily_counters_if_needed, run when today differs from          *)
(* last_reset_date, sets comments_today and error_count to 0 and             *)
(* last_reset_date to today and saves the record; run when they are equal it *)
(* changes none of them and saves nothing; after it last_reset_date is       *)
(* today, so it resets once per new date; no step removes an id from         *)
(* commented_posts.                                                           *)
C11_DailyReset ==
    [][ /\ RunsDailyReset(ret') =>
              /\ ret'.reset = (last_reset_date # today)
              /\ last_reset_date' = today
              /\ last_reset_date # today =>
                     /\ comments_today' = 0
                     /\ error_count' = 0
                     /\ data_file' = data_to_save(0, today, commented_posts)
              /\ last_reset_date = today =>
                     UNCHANGED <<comments_today, error_count, data_file>>
        /\ commented_posts \subseteq commented_posts'
      ]_vars

(* C11 witness: the reset has run on its own on the second day, after        *)
(* comments and errors of the first day, and the record holds the zero.      *)
C11_Witness ==
    /\ ret.op = "reset_daily_counters_if_needed"
    /\ ret.reset
    /\ today = Day1 + 1
    /\ last_reset_date = today
    /\ comments_today = 0
    /\ error_count = 0
    /\ Len(history) >= 2
    /\ commented_posts # {}
    /\ data_file = data_to_save(0, today, commented_posts)

(* C12 as claimed: can_comment, should_take_break and get_status_report      *)
(* apply the daily reset before they evaluate anything, so when one of them  *)
(* has returned the counters it read are those of today's date.              *)
C12_ResetBeforeEveryCheck ==
    ret.op \in {"can_comment", "should_take_break", "get_status_report"}
        => last_reset_date = today

(* C13: should_take_break returns true exactly when comments_today is at     *)
(* least 0.8 * MAX_COMMENTS_PER_DAY, or the hourly list has at least         *)
(* 0.8 * MAX_COMMENTS_PER_HOUR entries, or error_count is at least 3, and    *)
(* its reason is that of the first of these, in this order, that holds; 40   *)
(* comments today give (true, approaching the daily limit).                  *)
C13_ShouldTakeBreak ==
    ret.op = "should_take_break" =>
        LET daily == 10 * comments_today >= 8 * MAX_COMMENTS_PER_DAY
            hourly == 10 * Len(hourly_comments) >= 8 * MAX_COMMENTS_PER_HOUR
            errors == error_count >= 3
        IN  /\ ret.ok = (daily \/ hourly \/ errors)
            /\ daily => ret.reason = "approaching_daily_limit"
            /\ (~daily /\ hourly) => ret.reason = "high_activity"
            /\ (~daily /\ ~hourly /\ errors) => ret.reason = "consecutive_errors"
            /\ (~daily /\ ~hourly /\ ~errors) => ret.reason = "no_break"
            /\ comments_today = 40 => (ret.ok /\ ret.reason = "approaching_daily_limit")

(* C13 witness: should_take_break has answered with the daily reason at      *)
(* exactly 40 comments while the error condition holds too.                  *)
C13_Witness ==
    /\ ret.op = "should_take_break"
    /\ comments_today = 40
    /\ error_count >= 3
    /\ ret.ok
    /\ ret.reason = "approaching_daily_limit"

(* C14 as claimed: each check that uses the hourly count, can_comment once   *)
(* it is past the daily check, should_take_break and get_recommended_delay,  *)
(* has pruned hourly_comments first, so that the list it counted holds only  *)
(* times within the trailing 3600 seconds, should_take_break reports high    *)
(* activity only for comments of the past hour, and the delay is not raised  *)
(* while at most 5 comments lie in the past hour.                            *)
C14_HourlyCountIsPruned ==
    /\ ( \/ ret.op \in {"should_take_break", "get_recommended_delay"}
         \/ (ret.op = "can_comment"
               /\ ret.reason \notin {"already_commented", "daily_limit"}) )
           => \A i \in DOMAIN hourly_comments : now - hourly_comments[i] < HOUR
    /\ (ret.op = "should_take_break" /\ ret.reason = "high_activity")
           => 10 * CountWithin(history, now, HOUR) >= 8 * MAX_COMMENTS_PER_HOUR
    /\ (ret.op = "get_recommended_delay" /\ CountWithin(history, now, HOUR) <= 5)
           => ret.wait <= DELAY_BETWEEN_COMMENTS * 10 * 12

(* C15 as claimed, where every time in hourly_comments lies within the past  *)
(* hour: get_recommended_delay returns base * multiplier * jitter with the   *)
(* multiplier 2.0 above 8 comments, 1.5 for 6 to 8, 1.0 up to 5, and the     *)
(* jitter in [0.8, 1.2].                                                      *)
C15_DelayMultiplier ==
    ( /\ ret.op = "get_recommended_delay"
      /\ \A i \in DOMAIN hourly_comments : now - hourly_comments[i] < HOUR )
        => LET count == Len(hourly_comments)
               multiplier == IF count > 8 THEN 20 ELSE IF count >= 6 THEN 15 ELSE 10
           IN  \E jitter \in 8..12 :
                   ret.wait = DELAY_BETWEEN_COMMENTS * multiplier * jitter

(* The texts of ErrorTexts that, lowered, contain 'invalid session',         *)
(* 'account suspended', 'rate limit exceeded', 'blocked' or 'login required'. *)
FatalTexts ==
    {TextInvalidSession, TextSuspended, TextRateLimit, TextUnblocked, TextLogin}

(* C16: for a text that, lowered, contains one of the five fatal substrings  *)
(* handle_error returns False without sleeping whatever the attempt number   *)
(* is; for any other text it does not take the error as critical and         *)
(* returns True for the attempts 1 to 5.                                      *)
C16_FatalIffSubstring ==
    [][ ret'.op = "handle_error" =>
          /\ error'.text \in FatalTexts =>
                 (~ret'.ok /\ ret'.reason = "critical" /\ ret'.wait = 0 /\ now' = now)
          /\ error'.text \notin FatalTexts =>
                 (ret'.reason # "critical" /\ (attempt' <= 5 => ret'.ok))
      ]_vars

(* C16 witness: an upper-case fatal text, first attempt, refused at once. *)
C16_Witness ==
    /\ ret.op = "handle_error"
    /\ error = Raised(TextSuspended)
    /\ attempt = 1
    /\ ~ret.ok
    /\ ret.wait = 0
    /\ now = 100

(* C17: for a text that is not fatal, handle_error with attempt n from 1 to  *)
(* 5 sleeps exactly the n-th of 5, 10, 20, 30, 60 seconds and returns True;  *)
(* with n above 5 it returns False and does not sleep.                       *)
C17_BackoffTable ==
    [][ (ret'.op = "handle_error" /\ error'.text \notin FatalTexts) =>
          IF attempt' \in 1..5
            THEN /\ ret'.ok
                 /\ ret'.wait = <<5, 10, 20, 30, 60>>[attempt']
                 /\ now' = now + ret'.wait
            ELSE /\ ~ret'.ok
                 /\ ret'.wait = 0
                 /\ now' = now
      ]_vars

(* C17 witness: the fifth attempt of a transient error has slept 60 seconds. *)
C17_Witness ==
    /\ ret.op = "handle_error"
    /\ error = Raised(TextTimeout)
    /\ attempt = 5
    /\ ret.ok
    /\ ret.wait = 60
    /\ now = 160

(* What should_take_break answers on the counters given, in the claim's words *)
BreakDue(ct, h, ec) ==
    \/ 10 * ct >= 8 * MAX_COMMENTS_PER_DAY
    \/ 10 * Len(h) >= 8 * MAX_COMMENTS_PER_HOUR
    \/ ec >= 3

(* C18: _attempt_comment_with_retry calls the poster at most 3 times for a   *)
(* post; after an exception of the poster it goes on only if handle_error    *)
(* returned True and fewer than 3 calls were made, and otherwise returns     *)
(* False to the loop, which records the attempt: the exception goes nowhere  *)
(* else.                                                                      *)
C18_RetryLoop ==
    [][ /\ calls' <= 3
        /\ pc' = "handle" => (pc = "attempt" /\ error'.raised /\ calls' = calls + 1)
        /\ pc = "handle" =>
              /\ ret'.op = "handle_error"
              /\ pc' = (IF ret'.ok /\ calls < 3 THEN "attempt" ELSE "record")
              /\ pc' = "record" => ~success'
              /\ calls' = calls
      ]_vars

(* C18 witness: the poster has raised three times, handle_error has slept    *)
(* the third delay and returned True, and the function has returned False.   *)
C18_Witness ==
    /\ pc = "record"
    /\ calls = 3
    /\ error = Raised(TextTimeout)
    /\ ret.op = "handle_error"
    /\ ret.ok
    /\ ret.wait = 20
    /\ ~success

C20_SkipChangesNothing ==
    [][ /\ (pc = "check" /\ ~ret'.ok) =>
              /\ results' = [results EXCEPT !.skipped_posts = @ + 1]
              /\ ret'.op = "can_comment"
              /\ idx' = idx + 1
              /\ pc' = (IF idx < Len(safe_posts) THEN "check" ELSE "finish")
              /\ UNCHANGED <<history, recorded, last_comment_time>>
              /\ calls' = 0
              /\ UNCHANGED <<comments_today, commented_posts, error_count>>
        /\ results'.skipped_posts # results.skipped_posts => (pc = "check" /\ ~ret'.ok)
      ]_vars

(* C20 amended: the same, except that comments_today and error_count are set *)
(* to 0 when the denying can_comment is the first check of a new date and    *)
(* so makes the daily reset; commented_posts is as it was in every case.     *)
C20_SkipChangesNothingButDailyReset ==
    [][ /\ (pc = "check" /\ ~ret'.ok) =>
              /\ results' = [results EXCEPT !.skipped_posts = @ + 1]
              /\ ret'.op = "can_comment"
              /\ idx' = idx + 1
              /\ pc' = (IF idx < Len(safe_posts) THEN "check" ELSE "finish")
              /\ UNCHANGED <<history, recorded, last_comment_time>>
              /\ calls' = 0
              /\ commented_posts' = commented_posts
              /\ IF last_reset_date = today
                   THEN UNCHANGED <<comments_today, error_count>>
                   ELSE comments_today' = 0 /\ error_count' = 0
        /\ results'.skipped_posts # results.skipped_posts => (pc = "check" /\ ~ret'.ok)
      ]_vars

(* C20 witness: the second post was denied at its check, on the date of the  *)
(* first comment, and counted as skipped; nothing was recorded for it.       *)
C20_Witness ==
    /\ pc = "finish"
    /\ idx = 3
    /\ ret.op = "can_comment"
    /\ ~ret.ok
    /\ ~ret.reset
    /\ results.skipped_posts = 1
    /\ results.successful_comments = 1
    /\ comments_today = 1
    /\ commented_posts = {safe_posts[1]}

(* C21: when should_take_break answers true after a post was recorded, the   *)
(* loop is left with safety_stops at 1, no post is checked or handed to the  *)
(* poster after that, the counts are reported and run() returns success.     *)
C21_SafetyStop ==
    [][ /\ (pc = "record" /\ BreakDue(comments_today', hourly_comments', error_count'))
              => (pc' = "finish" /\ results.safety_stops = 0
                    /\ results'.safety_stops = 1)
        /\ results.safety_stops = 1 =>
              /\ pc \in {"finish", "done"}
              /\ pc' \in {"finish", "done"}
              /\ UNCHANGED <<results, idx, calls, submitted, history, safe_posts>>
        /\ pc = "finish" => (pc' = "done" /\ result' = Returned(TRUE, TRUE))
      ]_vars

(* C21 witness: the session has ended with success after a safety stop at    *)
(* the first of two posts.                                                    *)
C21_Witness ==
    /\ pc = "done"
    /\ results.safety_stops = 1
    /\ idx = 1
    /\ Len(safe_posts) = 2
    /\ result = Returned(TRUE, TRUE)
    /\ calls = 1

(* C22 as claimed: a session whose attempts all succeed goes on until the    *)
(* daily limit denies the remaining posts, which are counted as skipped, so  *)
(* that at its end every post of the list is counted as successful or as     *)
(* skipped.                                                                   *)
C22_EveryPostCommentedOrSkipped ==
    (pc = "done" /\ result.reported /\ results.failed_comments = 0)
        => results.successful_comments + results.skipped_posts = results.total_posts

(* C22 amended: should_take_break ends the loop at the success that brings   *)
(* comments_today to 0.8 * MAX_COMMENTS_PER_DAY, so in the loop              *)
(* comments_today stays below that, can_comment never denies for the daily   *)
(* limit, the posts after the stop are neither checked nor counted, and      *)
(* safety_stops is 1; without a stop and without a failure every post is     *)
(* counted as successful or skipped.                                          *)
C22_BreakComesBeforeDailyLimit ==
    [][ /\ pc = "check" =>
              (ret'.reason # "daily_limit"
                 /\ 10 * comments_today < 8 * MAX_COMMENTS_PER_DAY)
        /\ (pc = "record" /\ success
              /\ 10 * comments_today' >= 8 * MAX_COMMENTS_PER_DAY) =>
              /\ pc' = "finish"
              /\ results'.safety_stops = 1
              /\ results'.successful_comments = results.successful_comments + 1
              /\ results'.skipped_posts = results.skipped_posts
        /\ pc = "finish" =>
              /\ results.successful_comments + results.failed_comments
                    + results.skipped_posts = idx - (1 - results.safety_stops)
              /\ results.safety_stops = 0 => idx = results.total_posts + 1
              /\ results.safety_stops = 1 => idx <= results.total_posts
              /\ comments_today < MAX_COMMENTS_PER_DAY
      ]_vars

(* C22 witness: two posts, the first commented, which brings comments_today  *)
(* to 40; the session has ended with one success, nothing skipped and one    *)
(* safety stop.                                                               *)
C22_Witness ==
    /\ pc = "done"
    /\ result.reported
    /\ results = [total_posts |-> 2, successful_comments |-> 1, failed_comments |-> 0,
                  skipped_posts |-> 0, safety_stops |-> 1]
    /\ comments_today = 40

(* C23: an exception that escapes a step of the loop body for post i makes   *)
(* the loop count post i as failed, sleep 5 seconds and go to post i+1, or   *)
(* to the report after the last post; the loop is left only after the last   *)
(* post or by a safety stop, and run() then returns success with the counts  *)
(* reported.                                                                  *)
C23_UnexpectedErrorContained ==
    [][ /\ pc' = "except" =>
              (pc \in {"check", "handle", "record", "sleep"} /\ idx' = idx)
        /\ pc = "except" =>
              /\ results' = [results EXCEPT !.failed_comments = @ + 1]
              /\ now' = now + 5
              /\ idx' = idx + 1
              /\ pc' = (IF idx < Len(safe_posts) THEN "check" ELSE "finish")
        /\ pc = "finish" =>
              /\ idx = Len(safe_posts) + 1 \/ results.safety_stops = 1
              /\ pc' = "done"
              /\ result' = Returned(TRUE, TRUE)
        /\ (pc \in {"check", "attempt", "handle", "record", "sleep", "except"}
              /\ pc' = "done") => FALSE
      ]_vars

(* C23 witness: both posts of the list raised at their check; each was       *)
(* counted as failed, nothing was handed to the poster or recorded, and the  *)
(* session has ended with success.                                            *)
C23_Witness ==
    /\ pc = "done"
    /\ result = Returned(TRUE, TRUE)
    /\ error = Raised(TextValueError)
    /\ results = [total_posts |-> 2, successful_comments |-> 0, failed_comments |-> 2,
                  skipped_posts |-> 0, safety_stops |-> 0]
    /\ submitted = {}
    /\ error_count = 0
    /\ now = 110

(* run() has returned True from line 93 (no posts found) or line 106 (no     *)
(* post passed the pre-filter)                                                *)
NothingToDo ==
    /\ pc = "done"
    /\ result = Returned(TRUE, FALSE)
    /\ ret.op # "get_status_report"

(* C24 as stated: a session that finds no posts, or none that passes the     *)
(* pre-filter, ends with success, has not called the poster or               *)
(* record_comment, and has left every safety counter as it was.              *)
C24_NothingToDoChangesNothing ==
    NothingToDo =>
        /\ calls = 0
        /\ submitted = {}
        /\ history = <<>>
        /\ commented_posts = boot.commented_posts
        /\ comments_today = boot.comments_today
        /\ error_count = 0

(* C24 amended: such a session has called neither the poster nor             *)
(* record_comment and has left commented_posts as it was; comments_today is  *)
(* as it was unless the status report or the pre-filter ran the daily reset  *)
(* on a new date, which sets it to 0.                                         *)
C24_NothingToDoButDailyReset ==
    NothingToDo =>
        /\ calls = 0
        /\ submitted = {}
        /\ history = <<>>
        /\ commented_posts = boot.commented_posts
        /\ error_count = 0
        /\ comments_today = (IF NoResetSinceStart THEN boot.comments_today ELSE 0)

(* C24 witness: two posts were scraped on the day after the record was       *)
(* written, the pre-filter refused both as already commented, and its first  *)
(* check has reset the day's count from 2 to 0.                                *)
C24_Witness ==
    /\ NothingToDo
    /\ Len(posts) = 2
    /\ safe_posts = <<>>
    /\ boot.comments_today = 2
    /\ comments_today = 0
    /\ last_reset_date = Day1 + 1

(* C25: with a writable storage, after every record_comment call and after   *)
(* every call that ran the daily reset on a new date, the file holds a whole *)
(* record of exactly the three keys whose comments_today, last_reset_date    *)
(* and commented_posts are the values in memory, each post id once.          *)
C25_SavedRecordIsMemory ==
    (ret.op = "record_comment" \/ (RunsDailyReset(ret) /\ ret.reset)) =>
        /\ data_file.kind = "record"
        /\ data_file.has = Keys
        /\ data_file.comments_today = comments_today
        /\ data_file.last_reset_date = last_reset_date
        /\ Range(data_file.commented_posts) = commented_posts
        /\ Len(data_file.commented_posts) = Cardinality(commented_posts)

(* C25 witness: the process started on a record of 39 comments; the date     *)
(* changed, a reset was saved, and the record_comment just made has saved    *)
(* the new day's first comment.                                               *)
C25_Witness ==
    /\ ret.op = "record_comment"
    /\ ret.ok
    /\ boot.comments_today = 39
    /\ data_file = data_to_save(1, Day1 + 1, {"p1"})

(* the file after the step is not the record of the memory after the step *)
SaveFailed ==
    data_file' # data_to_save(comments_today', last_reset_date', commented_posts')

(* C26: a record_comment or a daily reset whose write fails still returns:   *)
(* the counters in memory hold the updated values, the session takes its     *)
(* next step (the wait, or the report on a safety stop) and does not end in  *)
(* failure.                                                                   *)
C26_FailedWriteIsContained ==
    [][ /\ (ret'.op = "record_comment" /\ SaveFailed) =>
              /\ IF ret'.ok
                   THEN /\ comments_today' = comments_today + 1
                        /\ commented_posts' = commented_posts \cup {ret'.post_id}
                        /\ last_comment_time' = now
                        /\ error_count' = 0
                   ELSE /\ error_count' = error_count + 1
                        /\ comments_today' = comments_today
                        /\ commented_posts' = commented_posts
              /\ pc' \in {"sleep", "finish"}
              /\ results.successful_comments + results.failed_comments + 1
                   = results'.successful_comments + results'.failed_comments
              /\ result' = Running
        /\ (RunsDailyReset(ret') /\ ret'.reset /\ SaveFailed) =>
              /\ comments_today' = 0
              /\ error_count' = 0
              /\ last_reset_date' = today
              /\ result'.value # "failure"
              /\ pc' = CASE pc = "start" -> "browser"
                         [] pc = "finish" -> "done"
                         [] pc = "check" /\ ret'.ok -> "attempt"
                         [] pc = "check" /\ ~ret'.ok ->
                               (IF idx < Len(safe_posts) THEN "check" ELSE "finish")
                         [] pc = "filter" /\ idx < Len(posts) -> "filter"
                         [] OTHER -> IF safe_posts' = <<>> THEN "done" ELSE "check"
      ]_vars

(* C26 witness: the write of the first comment of the session failed and     *)
(* left an unusable file; the comment is counted in memory and the session   *)
(* is at the wait before the next post.                                       *)
C26_Witness ==
    /\ ret.op = "record_comment"
    /\ ret.ok
    /\ data_file = Corrupt
    /\ io_failed
    /\ comments_today = 1
    /\ commented_posts = {ret.post_id}
    /\ pc = "sleep"
    /\ result = Running

(* the state in which the constructor has just returned or raised *)
JustStarted == now = 100 /\ ret = NoCall

(* C27 as stated: whatever the file holds, the SafetyManager is constructed, *)
(* and a field the file does not supply starts at its default:               *)
(* comments_today 0, last_reset_date today, commented_posts empty.           *)
C27_ConstructionNeverFails ==
    /\ pc # "crashed"
    /\ JustStarted =>
          /\ "comments_today" \notin data_file.has => comments_today = 0
          /\ "last_reset_date" \notin data_file.has => last_reset_date = today
          /\ "commented_posts" \notin data_file.has => commented_posts = {}

(* C28: a run() whose configuration lacks the e-mail or the password returns *)
(* failure at once: no status report, no browser, no scrape, no check, no    *)
(* attempt, no counter and no file changed, and the process does nothing     *)
(* after it.                                                                  *)
C28_MissingCredentialBlocksRun ==
    [][ /\ (pc = "start"
              /\ (config'.facebook_email = "" \/ config'.facebook_password = "")) =>
              /\ pc' = "done"
              /\ result' = Returned(FALSE, FALSE)
              /\ ret' = NoCall
              /\ posts' = <<>>
              /\ calls' = 0
              /\ submitted' = {}
              /\ UNCHANGED <<smVars, data_file, envVars, logVars, results>>
        /\ pc = "done" => FALSE
      ]_vars

(* C28 witness: the e-mail and the group are configured, the password is     *)
(* empty; run() has returned failure with the stored count of 39 untouched.  *)
C28_Witness ==
    /\ pc = "done"
    /\ result = Returned(FALSE, FALSE)
    /\ config.read
    /\ config.facebook_email = "secret"
    /\ config.facebook_password = ""
    /\ config.group_id # ""
    /\ comments_today = 39
    /\ data_file = data_to_save(39, Day1, {})
    /\ posts = <<>>

(* C29 as stated, for a storage that never failed: when an interrupt has     *)
(* ended the session, the persisted record names every post for which the    *)
(* poster has submitted a comment in the session.                            *)
C29_InterruptPersistsComments ==
    (pc = "done" /\ result.interrupted /\ ~io_failed) =>
        /\ submitted \subseteq Range(data_file.commented_posts)
        /\ data_file.comments_today >= Cardinality(submitted) \/ today # boot.day

(* C30 as stated: a session that passed validation and has ended has         *)
(* reported its counts and the daily counter.                                 *)
C30_EverySessionReports ==
    (pc = "done" /\ config.read /\ validate(config)) => result.reported

(* C31 as stated: the delay the orchestrator sleeps after a successful       *)
(* comment is at least MIN_DELAY_BETWEEN_COMMENTS, and the can_comment that  *)
(* follows the sleep does not deny the next post as too soon.                *)
C31_DelayCoversMinimumSpacing ==
    [][ (pc = "check" /\ ret.op = "get_recommended_delay" /\ success) =>
            /\ ret.wait >= 100 * MIN_DELAY_BETWEEN_COMMENTS
            /\ ret'.reason # "too_soon"
      ]_vars

(* C32: over runs and date changes comments_today never exceeds              *)
(* 0.8 * MAX_COMMENTS_PER_DAY = 40; at 40 the session is at its report, has  *)
(* ended, or a new process has not yet passed the break check of run(); so   *)
(* the count stays below MAX_COMMENTS_PER_DAY and can_comment never gives    *)
(* the daily-limit denial.                                                    *)
C32_DailyCountStopsAtBreakThreshold ==
    /\ 10 * comments_today <= 8 * MAX_COMMENTS_PER_DAY
    /\ comments_today < MAX_COMMENTS_PER_DAY
    /\ ret.reason # "daily_limit"
    /\ 10 * comments_today = 8 * MAX_COMMENTS_PER_DAY => pc \in {"finish", "done", "start"}

(* C32 witness: an earlier process stopped at the 40th comment of the day;   *)
(* the present one, on the same date, has returned from run() at the break   *)
(* check without scraping.                                                    *)
C32_Witness ==
    /\ comments_today = 40
    /\ runs = 2
    /\ today = Day1
    /\ pc = "done"
    /\ result = Returned(TRUE, FALSE)
    /\ ret.op = "get_status_report"
    /\ posts = <<>>
    /\ history = <<>>

(* C33: in an orchestrated run error_count is at most 3; when it is 3 the    *)
(* loop has been left for the report or the session has ended, so no post    *)
(* is checked or attempted after three failures in a row, and can_comment    *)
(* never denies for too many consecutive errors.                              *)
C33_ErrorCountStopsAtThree ==
    /\ error_count <= 3
    /\ error_count = 3 =>
          /\ pc \in {"finish", "done"}
          /\ results.safety_stops = 1
    /\ ret.reason # "too_many_errors"

(* C33 witness: four posts were scraped, the first three failed one after    *)
(* the other, the session made a safety stop and ended with the fourth post  *)
(* never checked.                                                             *)
C33_Witness ==
    /\ pc = "done"
    /\ error_count = 3
    /\ results = [total_posts |-> 4, successful_comments |-> 0, failed_comments |-> 3,
                  skipped_posts |-> 0, safety_stops |-> 1]
    /\ idx = 3
    /\ result = Returned(TRUE, TRUE)

(* C34: with CommentBot as the poster no exception reaches                   *)
(* _attempt_comment_with_retry: its except branch is never entered,          *)
(* handle_error is never called and never waits, and the poster has been     *)
(* called exactly once when the attempt is recorded.                          *)
C34_PosterNeverRaises ==
    /\ pc # "handle"
    /\ ret.op # "handle_error"
    /\ error = NoError
    /\ calls <= 1
    /\ pc = "record" => (calls = 1 /\ ret.op = "comment_on_posts")

(* C34 witness: the body of comment_on_posts raised for the post, the        *)
(* exception was caught inside it, and the single call returned a failure    *)
(* that is about to be recorded.                                              *)
C34_Witness ==
    /\ pc = "record"
    /\ ret.op = "comment_on_posts"
    /\ ret.reason = "caught"
    /\ ~success
    /\ calls = 1
    /\ error = NoError

(* C35: a post with the has_commented hint whose id is not in                *)
(* commented_posts is allowed by can_comment, is skipped by CommentBot       *)
(* without being submitted, and is recorded as a failure: failed_comments    *)
(* and error_count grow by 1 and commented_posts is unchanged; the third     *)
(* such post in a row ends the loop with a safety stop.                      *)
C35_HintedPostIsRecordedAsFailure ==
    [][ /\ (pc = "check" /\ has_commented(safe_posts[idx])
              /\ safe_posts[idx] \notin commented_posts) => ret'.reason # "already_commented"
        /\ (pc = "attempt" /\ has_commented(safe_posts[idx])) =>
              /\ ret'.reason = "skipped"
              /\ ~success'
              /\ submitted' = submitted
              /\ pc' = "record"
        /\ (pc = "record" /\ has_commented(safe_posts[idx])) =>
              /\ ret'.op = "record_comment" /\ ~ret'.ok
              /\ results'.failed_comments = results.failed_comments + 1
              /\ results'.successful_comments = results.successful_comments
              /\ results'.skipped_posts = results.skipped_posts
              /\ error_count' = error_count + 1
              /\ commented_posts' = commented_posts
              /\ comments_today' = comments_today
              /\ error_count = 2 => (pc' = "finish" /\ results'.safety_stops = 1)
      ]_vars

(* C35 witness: the scrape returned three hinted posts and a fourth post;    *)
(* each of the three was allowed, skipped by CommentBot and recorded as      *)
(* failed, and the session ended with a safety stop.                         *)
C35_Witness ==
    /\ pc = "done"
    /\ posts = <<"h1", "h2", "h3", "p1">>
    /\ results = [total_posts |-> 4, successful_comments |-> 0, failed_comments |-> 3,
                  skipped_posts |-> 0, safety_stops |-> 1]
    /\ error_count = 3
    /\ commented_posts = {}
    /\ submitted = {}

(* C36 as stated: every post the loop has visited is in exactly one of       *)
(* successful_comments, failed_comments and skipped_posts, exceptions        *)
(* included: at the check of post idx the three add up to idx - 1, they      *)
(* never add up to more than total_posts, and safety_stops is 0 or 1.        *)
C36_EachPostCountedOnce ==
    LET counted == results.successful_comments + results.failed_comments
                       + results.skipped_posts
    IN  /\ counted <= results.total_posts
        /\ pc = "check" => counted = idx - 1
        /\ results.safety_stops \in {0, 1}

(* C37: when a step before record_comment raises for a post, the raise and   *)
(* the handler leave every field of the SafetyManager and the file as they   *)
(* were, make no call (should_take_break included), count the post as failed *)
(* and go on to the next post; a run on one date in which all posts failed   *)
(* and error_count is still 0 has visited every post and made no safety      *)
(* stop.                                                                      *)
C37_UnexpectedFailureIsNotRecorded ==
    [][ /\ (pc \in {"check", "handle", "record"} /\ pc' = "except") =>
              /\ UNCHANGED <<smVars, data_file, results, history>>
              /\ ret' = NoCall
        /\ pc = "except" =>
              /\ UNCHANGED <<smVars, data_file, history>>
              /\ ret' = NoCall
              /\ results'.safety_stops = results.safety_stops
              /\ results'.failed_comments = results.failed_comments + 1
              /\ idx' = idx + 1
              /\ pc' = (IF idx < Len(safe_posts) THEN "check" ELSE "finish")
        /\ (pc = "finish" /\ results.failed_comments = results.total_posts
              /\ error_count = 0 /\ today = boot.day) =>
              /\ results.safety_stops = 0
              /\ idx = Len(safe_posts) + 1
      ]_vars

(* C37 witness: four posts were scraped and each raised before it was        *)
(* recorded; all four were visited and counted as failed, error_count is 0,  *)
(* nothing was saved and the session ended without a safety stop.            *)
C37_Witness ==
    /\ pc = "done"
    /\ result = Returned(TRUE, TRUE)
    /\ results = [total_posts |-> 4, successful_comments |-> 0, failed_comments |-> 4,
                  skipped_posts |-> 0, safety_stops |-> 0]
    /\ error_count = 0
    /\ error = Raised(TextValueError)
    /\ data_file = NoFile
    /\ ~io_failed
    /\ idx = 5

(* C38: a process started on the record the previous one saved, with no save *)
(* or load having failed, has the previous comments_today, last_reset_date   *)
(* and commented_posts, and error_count 0, no hourly timestamps and no time  *)
(* of a last comment; until it records a comment of its own, its can_comment *)
(* never denies for the hourly limit or for the minimum spacing.              *)
C38_RestartRestoresSavedFieldsOnly ==
    [][ /\ (pc = "done" /\ pc' = "start" /\ ~io_failed'
              /\ data_file = data_to_save(comments_today, last_reset_date,
                                          commented_posts)) =>
              /\ comments_today' = comments_today
              /\ last_reset_date' = last_reset_date
              /\ commented_posts' = commented_posts
        /\ (pc = "done" /\ pc' = "start") =>
              /\ error_count' = 0
              /\ hourly_comments' = <<>>
              /\ last_comment_time' = None
        /\ (runs > 1 /\ history = <<>> /\ ret'.op = "can_comment") =>
              ret'.reason \notin {"too_soon", "hourly_limit"}
      ]_vars

(* C38 witness: the first process commented on a post at time 100 and ended; *)
(* the second, started at once on the saved record, knows the day's count    *)
(* and the post, and allows another post at time 100, no second after the    *)
(* first comment.                                                             *)
C38_Witness ==
    /\ runs = 2
    /\ now = 100
    /\ ~io_failed
    /\ comments_today = 1
    /\ Cardinality(commented_posts) = 1
    /\ data_file = data_to_save(1, Day1, commented_posts)
    /\ ret.op = "can_comment"
    /\ ret.ok
    /\ ret.post_id \notin commented_posts
    /\ last_comment_time = None
    /\ hourly_comments = <<>>

====
